---- MODULE Spec2Model ----
(***************************************************************************)
(* A model of collector-agent: the orchestrator's run loop                 *)
(* (collector/collector.py), the retrying delivery client                  *)
(* (collector/sender.py) and the PID-file lifecycle manager                *)
(* (collector/daemon.py, collector/cli.py).                                *)
(*                                                                         *)
(* The specifications of the module:                                      *)
(*   Spec     one collector process inside run_foreground / run_daemon,    *)
(*            from the entry of the while loop to the return of cleanup(); *)
(*            the shutdown signal is an asynchronous environment action.   *)
(*   FairSpec Spec with weak fairness on the process's own steps.          *)
(*   SpecPid  several command-line invocations sharing one PID file; the   *)
(*            run loop is the single control state "running" there.        *)
(*   SpecSeq  the commands start --daemon, status and stop run one after   *)
(*            the other on one PID file (collector/cli.py, daemon.py).     *)
(*   SpecRate the CPU rate engine of one NodeExporter, poll after poll     *)
(*            (collector/exporters/node.py).                               *)
(*   SpecGpu  one NvidiaExporter asked for availability and metrics        *)
(*            (collector/exporters/nvidia.py).                             *)
(*   SpecWrite  the commands of SpecPid one at a time, with the steps of   *)
(*            write_pid able to fail (collector/daemon.py).                *)
(*   SpecUptime  one long-lived DaemonManager asked for the uptime of the  *)
(*            daemons that come and go (collector/daemon.py).              *)
(*   SpecTransform, SpecRoundTrip, SpecDoc, SpecDisk  the transformer, the *)
(*            exposition parser on one rendered sample and on a document,  *)
(*            and the disk derivation, as functions of their inputs        *)
(*            (collector/transformer.py, parser.py, exporters/node.py).    *)
(***************************************************************************)
EXTENDS Integers, Sequences, FiniteSets, TLC

\* ---------------------------------------------------------------- bounds
\* config.interval, in seconds.
Interval == 1
\* Number of loop iterations explored before the model stops starting new ones.
MaxIter == 2
\* Number of command-line invocations that share the PID file.
NumInst == 2

\* collector.py:155 -- range(self.config.interval * 10)
IncrementsPerSecond == 10
\* sender.py:19 -- max_retries: int = 3, the value the collector passes too
\* (collector.py:42); senders with fewer attempts are explored as well.
MaxRetries == 3

VARIABLES
    \* ---- run loop (Spec)
    mode,            \* "foreground" | "daemon"
    node_enabled,    \* config.exporters.node_exporter.enabled
    gpu_enabled,     \* config.exporters.nvidia_smi.enabled
    max_retries,     \* sender.max_retries
    kill_now,        \* GracefulKiller.kill_now
    pc,              \* position of the process in the run loop
    iter,            \* number of the iteration in flight (0 before the first)
    node_metrics,    \* collect_once local
    gpu_metrics,     \* collect_once local
    metrics,         \* the snapshot collect_once returned
    metrics_dict,    \* collect_and_send local: the payload handed to send()
    attempt,         \* send()'s loop variable
    result,          \* what send() returned: "none" | "true" | "false"
    sleep_i,         \* index of the inter-iteration sleep loop
    \* ---- history of the run loop (written, never read, by the actions)
    sendLog,         \* events of the send() call in flight: POSTs and waits
    iterLog,         \* steps of the iteration in flight
    polled,          \* exporters whose get_metrics() ran in this iteration
    failed,          \* exporters whose get_metrics() failed in this iteration
    postCount,       \* snapshot id -> number of POST attempts carrying it
    sleepsAfterKill, \* 100 ms increments slept in the interval sleep after kill_now
    raisedAt,        \* iteration in which an exception last escaped (0: none)
    backoffs,        \* number of 1-second backoffs slept
    iterOpen,        \* an iteration has started and neither returned nor raised
    killedAt,        \* where the process was when kill_now was first set
    \* ---- PID file and the command-line invocations sharing it (SpecPid)
    pidFile,         \* the PID file: absent, or its text
    tmp,             \* invocation -> the temporary file its write_pid created
    alive,           \* the PIDs that have an entry under /proc
    ipc,             \* invocation -> position in its command
    cmd,             \* invocation -> "none" | "daemon" | "foreground" | "status"
    canWrite,        \* invocation -> it may create / remove files in the PID directory
    stage,           \* invocation -> number of forks its process has passed
    ret,             \* invocation -> where its get_pid() call returns to
    text,            \* invocation -> what get_pid's read_text() returned
    gp,              \* invocation -> result of its last get_pid(): 0 is None
    ikill,           \* invocation -> kill_now of its GracefulKiller
    concRead,        \* invocations whose last read_text() ran during another's write_pid
    \* ---- stop() and the commands run one at a time (SpecSeq)
    canSignal,       \* invocation -> it may signal the process the PID file names
    probes,          \* invocation -> os.kill(pid, 0) calls its stop() has made
    sig,             \* invocation -> the signals its stop() has delivered, in order
    goneSeen,        \* invocation -> a call of os.kill raised ProcessLookupError
    permErr,         \* invocation -> a call of os.kill raised PermissionError
    stopRet,         \* invocation -> what its stop() returned: "none" | "true" | "false"
    delPid,          \* invocation -> the PID whose file its stop() removed (0: none)
    seen,            \* invocation -> what its last get_pid() found in the PID file
    \* ---- rate engine of the node exporter (SpecRate)
    parsed,          \* node_cpu_seconds_total samples of the latest poll
    prev_cpu_total,  \* NodeExporter._prev_cpu_total
    prev_cpu_idle,   \* NodeExporter._prev_cpu_idle
    cpu_usage,       \* what _calculate_cpu_usage returned last, as a fraction
    lastFull,        \* samples of the latest poll that had CPU samples (<<>>: none yet)
    polls,           \* number of _calculate_cpu_usage calls made
    scrape,          \* how the scrape of the latest get_metrics() ended
    \* ---- nvidia-smi exporter (SpecGpu)
    nv_enabled,      \* NvidiaExporter.enabled
    nv_path,         \* NvidiaExporter._nvidia_smi_path
    nv_available,    \* NvidiaExporter._available
    nv_probes,       \* number of runs of the availability probe
    nv_calls,        \* number of is_available() / get_metrics() calls made
    nv_ret,          \* what the latest call returned
    nv_world,        \* whether nvidia-smi was on the PATH and how it ran, at that call
    \* ---- transformer as a function of its arguments (SpecTransform)
    tm_node,         \* transform_metrics argument node_metrics
    tm_gpu,          \* transform_metrics argument gpu_metrics
    tm_result,       \* what transform_metrics returned (None: not called yet)
    \* ---- parser on one rendered sample (SpecRoundTrip)
    rt_sample,       \* the sample: name, value, labels
    rt_line,         \* the line rendered from it
    rt_result,       \* ParsedMetrics.metrics returned for the line
    rt_step,         \* "sample", "rendered" or "parsed"
    \* ---- parser on a document (SpecDoc)
    doc_samples,     \* the samples of the well-formed lines, in document order
    doc_bad,         \* the malformed line
    doc_at,          \* number of well-formed lines before the malformed one
    doc_text,        \* the document
    doc_result,      \* ParsedMetrics.metrics returned for it (None: not parsed yet)
    \* ---- daemonize and write_pid in detail (SpecPid, SpecSeq, SpecWrite)
    dlog,            \* invocation -> the steps of daemonize() it has taken, in order
    fd,              \* invocation -> "none", "open" or "closed": mkstemp's descriptor
    wperr,           \* invocation -> the exception write_pid's try block raised
    raised,          \* invocation -> the exception that left write_pid
    \* ---- one long-lived DaemonManager watching the PID file (SpecUptime)
    clock,           \* datetime.now(), in seconds
    started,         \* PID -> start time of the process, from /proc
    start_time,      \* DaemonManager._start_time: <<>> for None, else <<time>>
    cached_of,       \* the PID whose start time _start_time holds (0: none)
    up_pc,           \* position of the manager inside get_uptime()
    up_pid,          \* what get_uptime's is_running() saw running
    up_result,       \* what the latest get_uptime() returned
    missing,         \* PIDs the manager's get_pid() found not to exist
    \* ---- disk derivation of the node exporter (SpecDisk)
    size_metrics,    \* parsed.get_all_values("node_filesystem_size_bytes")
    avail_metrics,   \* parsed.get_all_values("node_filesystem_avail_bytes")
    disks            \* what _get_disk_metrics returned (None: not called yet)

cfgVars == <<mode, node_enabled, gpu_enabled, max_retries>>
localVars == <<node_metrics, gpu_metrics, metrics, metrics_dict, attempt, result>>
histVars == <<sendLog, iterLog, polled, failed, postCount, sleepsAfterKill,
              raisedAt, backoffs, iterOpen, killedAt>>
loopVars == <<cfgVars, kill_now, pc, iter, sleep_i, localVars, histVars>>

pidVars == <<pidFile, tmp, alive, ipc, cmd, canWrite, stage, ret, text, gp, ikill,
             concRead>>

stopHist == <<canSignal, probes, sig, goneSeen, permErr, stopRet, delPid>>
stopVars == <<stopHist, seen>>
rateVars == <<parsed, prev_cpu_total, prev_cpu_idle, cpu_usage, lastFull, polls, scrape>>
gpuVars == <<nv_enabled, nv_path, nv_available, nv_probes, nv_calls, nv_ret, nv_world>>
tmVars == <<tm_node, tm_gpu, tm_result>>
rtVars == <<rt_sample, rt_line, rt_result, rt_step>>
docVars == <<doc_samples, doc_bad, doc_at, doc_text, doc_result>>
diskVars == <<size_metrics, avail_metrics, disks>>
pureVars == <<tmVars, rtVars, docVars, diskVars>>
daemonVars == <<dlog>>
wpVars == <<fd, wperr, raised>>
upVars == <<clock, started, start_time, cached_of, up_pc, up_pid, up_result, missing>>
procVars == <<loopVars, pidVars, stopVars, rateVars, gpuVars, daemonVars, wpVars, upVars>>
notLoopVars == <<pidVars, stopVars, rateVars, gpuVars, pureVars, daemonVars, wpVars,
                 upVars>>
notPidVars == <<loopVars, stopVars, rateVars, gpuVars, pureVars, daemonVars, wpVars,
                upVars>>
notDaemonizeVars == <<loopVars, stopVars, rateVars, gpuVars, pureVars, wpVars, upVars>>
notWritePidVars == <<loopVars, stopVars, rateVars, gpuVars, pureVars, daemonVars, upVars>>
notSeqVars == <<loopVars, rateVars, gpuVars, pureVars, daemonVars, wpVars, upVars>>
notRateVars == <<loopVars, pidVars, stopVars, gpuVars, pureVars, daemonVars, wpVars,
                 upVars>>
notGpuVars == <<loopVars, pidVars, stopVars, rateVars, pureVars, daemonVars, wpVars,
                upVars>>
notTmVars == <<procVars, rtVars, docVars, diskVars>>
notRtVars == <<procVars, tmVars, docVars, diskVars>>
notDocVars == <<procVars, tmVars, rtVars, diskVars>>
notDiskVars == <<procVars, tmVars, rtVars, docVars>>
vars == <<loopVars, pidVars, stopVars, rateVars, gpuVars, pureVars, daemonVars, wpVars,
          upVars>>

\* ------------------------------------------------------------ data values
None == [tag |-> "None"]

\* A dict with no key, dict.get(k, default) and d[k] = v.
EmptyMap == [c \in {} |-> 0]
Get(m, k, default) == IF k \in DOMAIN m THEN m[k] ELSE default
Put(m, k, v) == [c \in DOMAIN m \cup {k} |-> IF c = k THEN v ELSE m[c]]

\* What NodeExporter.get_metrics() can return when the scrape succeeds.
NodeFacts ==
    { [tag |-> "node",
       cpu |-> [usage_percent |-> u, load_1m |-> 1, load_5m |-> 1, load_15m |-> 1,
                cores |-> 4],
       memory |-> [total_bytes |-> 16, available_bytes |-> 8, usage_percent |-> 50],
       disks |-> <<[mountpoint |-> "/", device |-> "sda1", total_bytes |-> 100,
                    available_bytes |-> 40, usage_percent |-> 60]>>] : u \in {25} }

\* What NvidiaExporter.get_metrics() can return when the query succeeds.
GpuFacts ==
    { [tag |-> "gpu", utilization_percent |-> 35, memory_used_bytes |-> 4,
       memory_total_bytes |-> 8, memory_usage_percent |-> 50,
       temperature_celsius |-> 60, power_watts |-> 150] }

\* transformer.py: CpuMetrics() and MemoryMetrics() defaults. An Optional field
\* that is None (temperature_celsius) is a field the record does not have.
CpuMetrics == [usage_percent |-> 0, load_1m |-> 0, load_5m |-> 0, load_15m |-> 0,
               cores |-> 1]
MemoryMetrics == [total_bytes |-> 0, available_bytes |-> 0, usage_percent |-> 0]
\* transformer.py: the defaults transform_metrics passes for a disk entry, and
\* GpuMetrics() defaults.
DiskMetrics == [mountpoint |-> "", device |-> "", total_bytes |-> 0,
                available_bytes |-> 0, usage_percent |-> 0]
GpuMetrics == [utilization_percent |-> 0, memory_used_bytes |-> 0,
               memory_total_bytes |-> 0, memory_usage_percent |-> 0,
               temperature_celsius |-> 0, power_watts |-> 0]

\* `if node_metrics:` is false for None and for a dict with no key (the tag of
\* a modelled dict is not a key).
Truthy(d) == d # None /\ DOMAIN d # {"tag"}

\* Model(f = data.get(f, default), ...): every field of the defaults, taken from
\* data where data has it; an optional field only where data has it.
Fill(defaults, optional, data) ==
    [f \in DOMAIN defaults \cup (optional \cap DOMAIN data) |->
        IF f \in DOMAIN data THEN data[f] ELSE defaults[f]]

\* A transform_metrics that reports an absent GPU as a GPU block of zeros.
transform_metrics_ZeroGpu(node, gpu, now) ==
    [timestamp |-> now,
     cpu    |-> IF Truthy(node) /\ "cpu" \in DOMAIN node
                THEN Fill(CpuMetrics, {"temperature_celsius"}, node.cpu)
                ELSE CpuMetrics,
     memory |-> IF Truthy(node) /\ "memory" \in DOMAIN node
                THEN Fill(MemoryMetrics, {}, node.memory)
                ELSE MemoryMetrics,
     disks  |-> IF Truthy(node) /\ "disks" \in DOMAIN node
                THEN [k \in DOMAIN node.disks |-> Fill(DiskMetrics, {}, node.disks[k])]
                ELSE <<>>,
     gpu    |-> IF Truthy(gpu) THEN Fill(GpuMetrics, {}, gpu) ELSE GpuMetrics]

\* transformer.py transform_metrics: absent groups keep their defaults, the GPU
\* block stays absent; the timestamp is taken at transform time.
transform_metrics(node, gpu, now) ==
    LET has(k) == Truthy(node) /\ k \in DOMAIN node IN
    [timestamp |-> now,
     cpu    |-> IF has("cpu") THEN Fill(CpuMetrics, {"temperature_celsius"}, node.cpu)
                ELSE CpuMetrics,
     memory |-> IF has("memory") THEN Fill(MemoryMetrics, {}, node.memory)
                ELSE MemoryMetrics,
     disks  |-> IF has("disks")
                THEN [k \in DOMAIN node.disks |-> Fill(DiskMetrics, {}, node.disks[k])]
                ELSE <<>>,
     gpu    |-> IF Truthy(gpu) THEN Fill(GpuMetrics, {}, gpu) ELSE None]

\* transformer.py metrics_to_dict: model_dump(exclude_none=True) drops an absent
\* GPU block from the payload.
metrics_to_dict(m) ==
    IF m.gpu = None THEN [k \in DOMAIN m \ {"gpu"} |-> m[k]] ELSE m

\* ------------------------------------------------------------ delivery
\* Outcomes of one client.post(): a response with a status code, or an error.
StatusCodes == {200, 301, 503}
PostErrors == {"RequestError", "Exception"}
PostOutcomes ==
    {[kind |-> "response", status |-> s] : s \in StatusCodes}
        \cup {[kind |-> e, status |-> 0] : e \in PostErrors}

\* Mutant: only client and server errors raise, a 3xx answer passes as success.
raise_for_status_4xx5xx(status) == status >= 400

\* httpx Response.raise_for_status(): raises unless the status is 2xx.
raise_for_status(status) == ~(200 <= status /\ status <= 299)

\* ------------------------------------------------------------ run loop
\* Statements of an iteration that belong to collect_and_send.
IterationPcs == {"announce", "node", "gpu", "transform", "serialize",
                 "send_loop", "send_post", "send_wait", "after_send"}

ClearLocals ==
    /\ node_metrics' = None
    /\ gpu_metrics' = None
    /\ metrics' = None
    /\ metrics_dict' = None
    /\ attempt' = 0
    /\ result' = "none"
    /\ sendLog' = <<>>
    /\ iterLog' = <<>>
    /\ polled' = {}
    /\ failed' = {}

\* Mutant: no handler inside the loop, the exception ends the loop.
Raise_Propagates ==
    /\ pc' = "stopping"
    /\ raisedAt' = iter
    /\ iterOpen' = FALSE
    /\ ClearLocals
    /\ UNCHANGED <<cfgVars, kill_now, iter, sleep_i, postCount, sleepsAfterKill,
                   backoffs, killedAt>>

\* collector.py:160-162 / 194-196: an exception leaving the iteration body is
\* caught by the loop's handler, which logs it and goes on to time.sleep(1).
Raise ==
    /\ pc' = "backoff"
    /\ raisedAt' = iter
    /\ iterOpen' = FALSE
    /\ ClearLocals
    /\ UNCHANGED <<cfgVars, kill_now, iter, sleep_i, postCount, sleepsAfterKill,
                   backoffs, killedAt>>

\* Mutant: the signal unwinds the interpreter instead of only setting the flag.
Signal_Interrupts ==
    /\ pc # "exited"
    /\ kill_now' = TRUE
    /\ pc' = "stopping"
    /\ killedAt' = IF kill_now THEN killedAt ELSE "between"
    /\ UNCHANGED <<cfgVars, iter, sleep_i, localVars, sendLog, iterLog, polled,
                   failed, postCount, sleepsAfterKill, raisedAt, backoffs, iterOpen>>

\* GracefulKiller._exit_gracefully: SIGINT / SIGTERM delivered at any moment
\* while the process lives; the handler only sets the flag.
Signal ==
    /\ pc # "exited"
    /\ kill_now' = TRUE
    /\ killedAt' = IF kill_now THEN killedAt
                   ELSE IF pc \in IterationPcs THEN "iteration"
                   ELSE IF pc \in {"sleep_check", "sleeping"} THEN pc
                   ELSE "between"
    /\ UNCHANGED <<cfgVars, pc, iter, sleep_i, localVars, sendLog, iterLog, polled,
                   failed, postCount, sleepsAfterKill, raisedAt, backoffs, iterOpen>>

\* while not killer.kill_now:
LoopTop ==
    /\ pc = "loop_top"
    /\ IF kill_now
       THEN /\ pc' = "stopping"
            /\ UNCHANGED <<iter, iterOpen>>
       ELSE /\ iter < MaxIter
            /\ iter' = iter + 1
            /\ iterOpen' = TRUE
            /\ pc' = IF mode = "foreground" THEN "announce" ELSE "node"
    /\ UNCHANGED <<cfgVars, kill_now, sleep_i, localVars, sendLog, iterLog, polled,
                   failed, postCount, sleepsAfterKill, raisedAt, backoffs, killedAt>>

\* run_foreground only: the console line printed before collecting; writing to
\* the terminal can fail.
Announce ==
    /\ pc = "announce"
    /\ \/ /\ pc' = "node"
          /\ UNCHANGED <<cfgVars, kill_now, iter, sleep_i, localVars, histVars>>
       \/ Raise

\* Mutant: a failing first exporter ends the collection, the second is skipped.
ScrapeNode_FailureSkipsGpu ==
    /\ pc = "node"
    /\ IF node_enabled
       THEN \E o \in NodeFacts \cup {None, [tag |-> "raise"]} :
            /\ node_metrics' = IF o.tag = "node" THEN o ELSE None
            /\ polled' = polled \cup {"node"}
            /\ failed' = IF o.tag = "node" THEN failed ELSE failed \cup {"node"}
            /\ iterLog' = Append(iterLog, "node")
            /\ pc' = IF o.tag = "node" THEN "gpu" ELSE "transform"
       ELSE pc' = "gpu" /\ UNCHANGED <<node_metrics, polled, failed, iterLog>>
    /\ UNCHANGED <<cfgVars, kill_now, iter, sleep_i, gpu_metrics, metrics,
                   metrics_dict, attempt, result, sendLog, postCount,
                   sleepsAfterKill, raisedAt, backoffs, iterOpen, killedAt>>

\* collect_once, first exporter: get_metrics() returns facts, returns None, or
\* raises; the except clause turns a raise into "no result".
ScrapeNode ==
    /\ pc = "node"
    /\ IF node_enabled
       THEN \E o \in NodeFacts \cup {None, [tag |-> "raise"]} :
            /\ node_metrics' = IF o.tag = "node" THEN o ELSE None
            /\ polled' = polled \cup {"node"}
            /\ failed' = IF o.tag = "node" THEN failed ELSE failed \cup {"node"}
            /\ iterLog' = Append(iterLog, "node")
       ELSE UNCHANGED <<node_metrics, polled, failed, iterLog>>
    /\ pc' = "gpu"
    /\ UNCHANGED <<cfgVars, kill_now, iter, sleep_i, gpu_metrics, metrics,
                   metrics_dict, attempt, result, sendLog, postCount,
                   sleepsAfterKill, raisedAt, backoffs, iterOpen, killedAt>>

\* collect_once, second exporter.
ScrapeGpu ==
    /\ pc = "gpu"
    /\ IF gpu_enabled
       THEN \E o \in GpuFacts \cup {None, [tag |-> "raise"]} :
            /\ gpu_metrics' = IF o.tag = "gpu" THEN o ELSE None
            /\ polled' = polled \cup {"gpu"}
            /\ failed' = IF o.tag = "gpu" THEN failed ELSE failed \cup {"gpu"}
            /\ iterLog' = Append(iterLog, "gpu")
       ELSE UNCHANGED <<gpu_metrics, polled, failed, iterLog>>
    /\ pc' = "transform"
    /\ UNCHANGED <<cfgVars, kill_now, iter, sleep_i, node_metrics, metrics,
                   metrics_dict, attempt, result, sendLog, postCount,
                   sleepsAfterKill, raisedAt, backoffs, iterOpen, killedAt>>

\* collect_once: metrics = transform_metrics(node_metrics, gpu_metrics); return.
Transform ==
    /\ pc = "transform"
    /\ metrics' = transform_metrics(node_metrics, gpu_metrics, iter)
    /\ iterLog' = Append(iterLog, "transform")
    /\ pc' = "serialize"
    /\ UNCHANGED <<cfgVars, kill_now, iter, sleep_i, node_metrics, gpu_metrics,
                   metrics_dict, attempt, result, sendLog, polled, failed,
                   postCount, sleepsAfterKill, raisedAt, backoffs, iterOpen, killedAt>>

\* collect_and_send: metrics_dict = metrics_to_dict(metrics), then the call of
\* sender.send(metrics_dict). Serialisation is outside every inner try block.
Serialize ==
    /\ pc = "serialize"
    /\ \/ /\ metrics_dict' = metrics_to_dict(metrics)
          /\ attempt' = 0
          /\ iterLog' = Append(iterLog, "send")
          /\ pc' = "send_loop"
          /\ UNCHANGED <<cfgVars, kill_now, iter, sleep_i, node_metrics,
                         gpu_metrics, metrics, result, sendLog, polled, failed,
                         postCount, sleepsAfterKill, raisedAt, backoffs, iterOpen, killedAt>>
       \/ Raise

\* Mutant: an exhausted send starts over with the same snapshot.
SendLoop_RetriesForever ==
    /\ pc = "send_loop"
    /\ pc' = "send_post"
    /\ attempt' = IF attempt < max_retries THEN attempt ELSE 0
    /\ UNCHANGED <<cfgVars, kill_now, iter, sleep_i, node_metrics, gpu_metrics,
                   metrics, metrics_dict, result, sendLog, iterLog, polled, failed,
                   postCount, sleepsAfterKill, raisedAt, backoffs, iterOpen,
                   killedAt>>

\* send(): for attempt in range(self.max_retries) ... return False
SendLoop ==
    /\ pc = "send_loop"
    /\ IF attempt < max_retries
       THEN /\ pc' = "send_post"
            /\ UNCHANGED <<result, iterLog, iterOpen>>
       ELSE /\ result' = "false"
            /\ iterLog' = Append(iterLog, "sent")
            /\ iterOpen' = FALSE
            /\ pc' = "after_send"
    /\ UNCHANGED <<cfgVars, kill_now, iter, sleep_i, node_metrics, gpu_metrics,
                   metrics, metrics_dict, attempt, sendLog, polled, failed,
                   postCount, sleepsAfterKill, raisedAt, backoffs, killedAt>>

\* One POST that was answered 2xx: return True.
PostSucceeds ==
    /\ result' = "true"
    /\ iterLog' = Append(iterLog, "sent")
    /\ iterOpen' = FALSE
    /\ pc' = "after_send"
    /\ UNCHANGED attempt

\* Mutant: the delay is slept after the last attempt too.
PostFails_AlwaysWaits ==
    /\ pc' = "send_wait"
    /\ UNCHANGED <<attempt, result, iterLog, iterOpen>>

\* One POST that failed: the except clauses log it; the loop sleeps unless this
\* was the last attempt.
PostFails ==
    /\ IF attempt < max_retries - 1
       THEN pc' = "send_wait" /\ UNCHANGED attempt
       ELSE pc' = "send_loop" /\ attempt' = attempt + 1
    /\ UNCHANGED <<result, iterLog, iterOpen>>

\* send(): self.client.post(...); response.raise_for_status()
SendPost ==
    /\ pc = "send_post"
    /\ postCount' = [postCount EXCEPT ![metrics_dict.timestamp] = @ + 1]
    /\ \E o \in PostOutcomes :
          /\ sendLog' = Append(sendLog, [ev |-> "post", kind |-> o.kind,
                                         status |-> o.status])
          /\ IF o.kind = "response" /\ ~raise_for_status(o.status)
             THEN PostSucceeds
             ELSE PostFails
    /\ UNCHANGED <<cfgVars, kill_now, iter, sleep_i, node_metrics, gpu_metrics,
                   metrics, metrics_dict, polled, failed, sleepsAfterKill,
                   raisedAt, backoffs, killedAt>>

\* Mutant: the retry is left to run in the background and the loop goes on.
SendWait_Detached ==
    /\ pc = "send_wait"
    /\ sendLog' = Append(sendLog, [ev |-> "wait", kind |-> "sleep", status |-> 0])
    /\ attempt' = attempt + 1
    /\ pc' = "loop_top"
    /\ UNCHANGED <<cfgVars, kill_now, iter, sleep_i, node_metrics, gpu_metrics,
                   metrics, metrics_dict, result, iterLog, polled, failed,
                   postCount, sleepsAfterKill, raisedAt, backoffs, iterOpen,
                   killedAt>>

\* send(): time.sleep(self.retry_delay), then the next attempt.
SendWait ==
    /\ pc = "send_wait"
    /\ sendLog' = Append(sendLog, [ev |-> "wait", kind |-> "sleep", status |-> 0])
    /\ attempt' = attempt + 1
    /\ pc' = "send_loop"
    /\ UNCHANGED <<cfgVars, kill_now, iter, sleep_i, node_metrics, gpu_metrics,
                   metrics, metrics_dict, result, iterLog, polled, failed,
                   postCount, sleepsAfterKill, raisedAt, backoffs, iterOpen, killedAt>>

\* collect_and_send returns; run_foreground prints the outcome (which can fail),
\* run_daemon goes straight on to the sleep.
Report ==
    /\ pc = "after_send"
    /\ \/ /\ pc' = "sleep_check"
          /\ sleep_i' = 0
          /\ ClearLocals
          /\ UNCHANGED <<cfgVars, kill_now, iter, postCount, sleepsAfterKill,
                         raisedAt, backoffs, iterOpen, killedAt>>
       \/ /\ mode = "foreground"
          /\ Raise

\* Mutant: the sleep loop does not look at the flag.
SleepCheck_IgnoresFlag ==
    /\ pc = "sleep_check"
    /\ IF sleep_i < Interval * IncrementsPerSecond
       THEN pc' = "sleeping" /\ UNCHANGED sleep_i
       ELSE pc' = "loop_top" /\ UNCHANGED sleep_i
    /\ UNCHANGED <<cfgVars, kill_now, iter, localVars, histVars>>

\* for _ in range(self.config.interval * 10): if killer.kill_now: break
SleepCheck ==
    /\ pc = "sleep_check"
    /\ IF sleep_i < Interval * IncrementsPerSecond /\ ~kill_now
       THEN pc' = "sleeping" /\ UNCHANGED sleep_i
       ELSE pc' = "loop_top" /\ UNCHANGED sleep_i
    /\ UNCHANGED <<cfgVars, kill_now, iter, localVars, histVars>>

\* time.sleep(0.1)
SleepTick ==
    /\ pc = "sleeping"
    /\ sleep_i' = sleep_i + 1
    /\ sleepsAfterKill' = IF kill_now THEN sleepsAfterKill + 1 ELSE sleepsAfterKill
    /\ pc' = "sleep_check"
    /\ UNCHANGED <<cfgVars, kill_now, iter, localVars, sendLog, iterLog, polled,
                   failed, postCount, raisedAt, backoffs, iterOpen, killedAt>>

\* except Exception: logger.error(...); time.sleep(1)
Backoff ==
    /\ pc = "backoff"
    /\ backoffs' = backoffs + 1
    /\ pc' = "loop_top"
    /\ UNCHANGED <<cfgVars, kill_now, iter, sleep_i, localVars, sendLog, iterLog,
                   polled, failed, postCount, sleepsAfterKill, raisedAt, iterOpen, killedAt>>

\* The loop has ended: self.cleanup() closes the exporters and the sender.
Stop ==
    /\ pc = "stopping"
    /\ pc' = "exited"
    /\ UNCHANGED <<cfgVars, kill_now, iter, sleep_i, localVars, histVars>>

\* The state at the entry of the while loop: a collector built from its
\* configuration, the signal handlers installed, no signal received yet.
LoopInit ==
    /\ mode \in {"foreground", "daemon"}
    /\ node_enabled \in BOOLEAN
    /\ gpu_enabled \in BOOLEAN
    /\ max_retries \in 0..MaxRetries
    /\ kill_now = FALSE
    /\ pc = "loop_top"
    /\ iter = 0
    /\ sleep_i = 0
    /\ node_metrics = None
    /\ gpu_metrics = None
    /\ metrics = None
    /\ metrics_dict = None
    /\ attempt = 0
    /\ result = "none"
    /\ sendLog = <<>>
    /\ iterLog = <<>>
    /\ polled = {}
    /\ failed = {}
    /\ postCount = [k \in 1..MaxIter |-> 0]
    /\ sleepsAfterKill = 0
    /\ raisedAt = 0
    /\ backoffs = 0
    /\ iterOpen = FALSE
    /\ killedAt = "never"


\* ------------------------------------------------------------ PID file
Inst == 1..NumInst

\* A file: absent, or present with its text (a sequence of characters).
NoFile == [exists |-> FALSE, text |-> <<>>]
File(t) == [exists |-> TRUE, text |-> t]

Digit == <<"0", "1", "2", "3", "4", "5", "6", "7", "8", "9">>
DigitChars == {Digit[k] : k \in 1..10}
Whitespace == {" ", "\n", "\t"}

\* str(n) for n >= 0
RECURSIVE str(_)
str(n) == IF n < 10 THEN <<Digit[n + 1]>>
          ELSE str(n \div 10) \o <<Digit[(n % 10) + 1]>>

\* write_pid: f"{os.getpid()}\n"
Format(pid) == str(pid) \o <<"\n">>

\* str.strip()
RECURSIVE lstrip(_)
lstrip(t) == IF Len(t) > 0 /\ Head(t) \in Whitespace THEN lstrip(Tail(t)) ELSE t
RECURSIVE rstrip(_)
rstrip(t) == IF Len(t) > 0 /\ t[Len(t)] \in Whitespace
             THEN rstrip(SubSeq(t, 1, Len(t) - 1)) ELSE t
strip(t) == rstrip(lstrip(t))

\* int(s) of a string of decimal digits; anything else is a ValueError.
IsInt(t) == Len(t) > 0 /\ \A k \in 1..Len(t) : t[k] \in DigitChars
DigitVal(c) == CHOOSE d \in 0..9 : Digit[d + 1] = c
RECURSIVE int(_)
int(t) == IF Len(t) = 0 THEN 0
          ELSE 10 * int(SubSeq(t, 1, Len(t) - 1)) + DigitVal(t[Len(t)])

\* The PID of invocation i's process after s forks.
Pid(i, s) == 10 * i + s
\* os.getpid() in invocation i
CurPid(i) == Pid(i, stage[i])

\* What the PID file can hold before any invocation: nothing, the PID of a
\* process that is gone, or text that is no integer.
InitialFiles == {NoFile, File(Format(Pid(9, 9))), File(<<"a", "b", "c">>)}

Commands == {"daemon", "foreground", "status"}

GetPidPcs == {"gp_exists", "gp_read", "gp_check", "gp_cleanup"}
WritePidPcs == {"wp_mkstemp", "wp_write", "wp_close", "wp_rename"}

\* GracefulKiller() has run in invocation i: run_foreground installs it before
\* write_pid, run_daemon after daemonize.
HandlerInstalled(i) ==
    \/ cmd[i] = "foreground" /\ ipc[i] \in WritePidPcs \cup {"running"}
    \/ cmd[i] = "daemon" /\ (ipc[i] = "running" \/ (ipc[i] \in GetPidPcs /\ ret[i] = "running"))

\* The process of invocation i ends (sys.exit, return from the command, or an
\* uncaught exception) in control state p.
Exits(i, p) ==
    /\ ipc' = [ipc EXCEPT ![i] = p]
    /\ alive' = alive \ {CurPid(i)}

\* get_pid() returns v to its caller; its local text goes out of scope.
Returns(i, v) ==
    /\ gp' = [gp EXCEPT ![i] = v]
    /\ text' = [text EXCEPT ![i] = NoFile]
    /\ IF ret[i] = "done"
       THEN Exits(i, "done")
       ELSE ipc' = [ipc EXCEPT ![i] = ret[i]] /\ UNCHANGED alive

\* A command is started: cli.start (with or without --daemon) or cli.status.
ChooseCommand(i) ==
    /\ ipc[i] = "idle"
    /\ \E c \in Commands, w \in BOOLEAN :
          /\ cmd' = [cmd EXCEPT ![i] = c]
          /\ canWrite' = [canWrite EXCEPT ![i] = w]
          /\ IF c = "foreground"
             THEN ipc' = [ipc EXCEPT ![i] = "wp_mkstemp"] /\ UNCHANGED ret
             ELSE /\ ipc' = [ipc EXCEPT ![i] = "gp_exists"]
                  /\ ret' = [ret EXCEPT ![i] = IF c = "daemon" THEN "cli_checked"
                                               ELSE "done"]
    /\ alive' = alive \cup {Pid(i, 0)}
    /\ UNCHANGED <<pidFile, tmp, stage, text, gp, ikill, concRead>>

\* get_pid: if not self.pid_file.exists(): return None
GpExists(i) ==
    /\ ipc[i] = "gp_exists"
    /\ IF pidFile.exists
       THEN ipc' = [ipc EXCEPT ![i] = "gp_read"] /\ UNCHANGED <<gp, text, alive>>
       ELSE Returns(i, 0)
    /\ UNCHANGED <<pidFile, tmp, cmd, canWrite, stage, ret, ikill, concRead>>

\* get_pid: self.pid_file.read_text(); a file removed since the existence check
\* raises FileNotFoundError, which get_pid does not catch.
GpRead(i) ==
    /\ ipc[i] = "gp_read"
    /\ IF pidFile.exists
       THEN /\ text' = [text EXCEPT ![i] = pidFile]
            /\ ipc' = [ipc EXCEPT ![i] = "gp_check"]
            /\ concRead' = IF \E j \in Inst \ {i} :
                                  ipc[j] \in {"wp_write", "wp_close", "wp_rename"}
                            THEN concRead \cup {i}
                            ELSE concRead \ {i}
            /\ UNCHANGED alive
       ELSE /\ Exits(i, "crashed")
            /\ UNCHANGED <<text, concRead>>
    /\ UNCHANGED <<pidFile, tmp, cmd, canWrite, stage, ret, gp, ikill>>

\* Mutant: a stale or unparsable PID file is reported but left in place.
GpCheck_KeepsStale(i) ==
    /\ ipc[i] = "gp_check"
    /\ LET t == strip(text[i].text) IN
       IF IsInt(t) /\ int(t) \in alive
       THEN Returns(i, int(t))
       ELSE Returns(i, 0)
    /\ UNCHANGED <<pidFile, tmp, cmd, canWrite, stage, ret, ikill, concRead>>

\* get_pid: pid = int(text.strip()); if Path(f"/proc/{pid}").exists(): return pid
GpCheck(i) ==
    /\ ipc[i] = "gp_check"
    /\ LET t == strip(text[i].text) IN
       IF IsInt(t) /\ int(t) \in alive
       THEN Returns(i, int(t))
       ELSE ipc' = [ipc EXCEPT ![i] = "gp_cleanup"] /\ UNCHANGED <<gp, text, alive>>
    /\ UNCHANGED <<pidFile, tmp, cmd, canWrite, stage, ret, ikill, concRead>>

\* _cleanup_pid_file: unlink(missing_ok=True); a PermissionError is only logged.
cleanup_pid_file(i) ==
    pidFile' = IF canWrite[i] THEN NoFile ELSE pidFile

\* get_pid: self._cleanup_pid_file(); return None
GpCleanup(i) ==
    /\ ipc[i] = "gp_cleanup"
    /\ cleanup_pid_file(i)
    /\ Returns(i, 0)
    /\ UNCHANGED <<tmp, cmd, canWrite, stage, ret, ikill, concRead>>

\* cli.start --daemon: if is_running(): exit 1, else collector.run_daemon(),
\* which begins with is_running() again.
CliChecked(i) ==
    /\ ipc[i] = "cli_checked"
    /\ IF gp[i] # 0
       THEN Exits(i, "done") /\ UNCHANGED ret
       ELSE /\ ipc' = [ipc EXCEPT ![i] = "gp_exists"]
            /\ ret' = [ret EXCEPT ![i] = "rd_checked"]
            /\ UNCHANGED alive
    /\ UNCHANGED <<pidFile, tmp, cmd, canWrite, stage, text, gp, ikill, concRead>>

\* run_daemon: if self.daemon_manager.is_running(): return, else daemonize().
RdChecked(i) ==
    /\ ipc[i] = "rd_checked"
    /\ IF gp[i] # 0
       THEN Exits(i, "done")
       ELSE ipc' = [ipc EXCEPT ![i] = "fork1"] /\ UNCHANGED alive
    /\ UNCHANGED <<pidFile, tmp, cmd, canWrite, stage, ret, text, gp, ikill, concRead>>

\* One fork of daemonize from control state p to q: on OSError the process
\* exits 1; otherwise the parent exits 0 and the child goes on.
Fork(i, p, q) ==
    /\ ipc[i] = p
    /\ \/ /\ Exits(i, "done")
          /\ UNCHANGED stage
       \/ /\ stage' = [stage EXCEPT ![i] = @ + 1]
          /\ alive' = (alive \ {CurPid(i)}) \cup {Pid(i, stage[i] + 1)}
          /\ ipc' = [ipc EXCEPT ![i] = q]
    /\ UNCHANGED <<pidFile, tmp, cmd, canWrite, ret, text, gp, ikill, concRead>>

\* Invocation i takes the given steps of daemonize().
Logged(i, steps) == dlog' = [dlog EXCEPT ![i] = @ \o steps]

\* daemonize: first fork.
Fork1(i) == Fork(i, "fork1", "decouple") /\ Logged(i, <<"fork1">>)

\* daemonize: os.chdir("/"); os.setsid(); os.umask(0) in the first child.
Decouple(i) ==
    /\ ipc[i] = "decouple"
    /\ ipc' = [ipc EXCEPT ![i] = "fork2"]
    /\ Logged(i, <<"chdir", "setsid", "umask">>)
    /\ UNCHANGED <<pidFile, tmp, alive, cmd, canWrite, stage, ret, text, gp, ikill,
                   concRead>>

\* A daemonize that forks once: the first child goes on to the redirection.
Fork2_Skipped(i) ==
    /\ ipc[i] = "fork2"
    /\ ipc' = [ipc EXCEPT ![i] = "redirect"]
    /\ UNCHANGED dlog
    /\ UNCHANGED <<pidFile, tmp, alive, cmd, canWrite, stage, ret, text, gp, ikill,
                   concRead>>

\* daemonize: second fork.
Fork2(i) == Fork(i, "fork2", "redirect") /\ Logged(i, <<"fork2">>)

\* daemonize: stdin, stdout, stderr are redirected to /dev/null; write_pid()
\* is called next.
Redirect(i) ==
    /\ ipc[i] = "redirect"
    /\ ipc' = [ipc EXCEPT ![i] = "wp_mkstemp"]
    /\ Logged(i, <<"redirect">>)
    /\ UNCHANGED <<pidFile, tmp, alive, cmd, canWrite, stage, ret, text, gp, ikill,
                   concRead>>

\* Mutant: the PID file itself is opened for writing (and so truncated) when the
\* temporary file is created.
WpMkstemp_InPlace(i) ==
    /\ ipc[i] = "wp_mkstemp"
    /\ IF canWrite[i]
       THEN /\ tmp' = [tmp EXCEPT ![i] = File(<<>>)]
            /\ pidFile' = File(<<>>)
            /\ fd' = [fd EXCEPT ![i] = "open"]
            /\ ipc' = [ipc EXCEPT ![i] = "wp_write"]
            /\ UNCHANGED alive
       ELSE /\ IF cmd[i] = "foreground"
               THEN ipc' = [ipc EXCEPT ![i] = "running"] /\ UNCHANGED alive
               ELSE Exits(i, "crashed")
            /\ UNCHANGED <<tmp, pidFile, fd>>
    /\ UNCHANGED <<cmd, canWrite, stage, ret, text, gp, ikill, concRead, wperr, raised>>

\* write_pid: mkdir and tempfile.mkstemp in the PID file's directory. Without
\* write permission PermissionError is raised: run_foreground logs it and goes
\* on without a PID file, daemonize lets it end the process.
WpMkstemp(i) ==
    /\ ipc[i] = "wp_mkstemp"
    /\ IF canWrite[i]
       THEN /\ tmp' = [tmp EXCEPT ![i] = File(<<>>)]
            /\ fd' = [fd EXCEPT ![i] = "open"]
            /\ ipc' = [ipc EXCEPT ![i] = "wp_write"]
            /\ UNCHANGED alive
       ELSE /\ IF cmd[i] = "foreground"
               THEN ipc' = [ipc EXCEPT ![i] = "running"] /\ UNCHANGED alive
               ELSE Exits(i, "crashed")
            /\ UNCHANGED <<tmp, fd>>
    /\ UNCHANGED <<pidFile, cmd, canWrite, stage, ret, text, gp, ikill, concRead, wperr,
                   raised>>

\* Mutant: the PID written is the one the command had before it forked.
WpWrite_ParentPid(i) ==
    /\ ipc[i] = "wp_write"
    /\ tmp' = [tmp EXCEPT ![i] = File(Format(Pid(i, 0)))]
    /\ ipc' = [ipc EXCEPT ![i] = "wp_close"]
    /\ UNCHANGED <<pidFile, alive, cmd, canWrite, stage, ret, text, gp, ikill,
                   concRead>>

\* write_pid: os.write(fd, f"{os.getpid()}\n".encode())
WpWrite(i) ==
    /\ ipc[i] = "wp_write"
    /\ tmp' = [tmp EXCEPT ![i] = File(Format(CurPid(i)))]
    /\ ipc' = [ipc EXCEPT ![i] = "wp_close"]
    /\ UNCHANGED <<pidFile, alive, cmd, canWrite, stage, ret, text, gp, ikill,
                   concRead>>

\* write_pid: os.close(fd)
WpClose(i) ==
    /\ ipc[i] = "wp_close"
    /\ fd' = [fd EXCEPT ![i] = "closed"]
    /\ ipc' = [ipc EXCEPT ![i] = "wp_rename"]
    /\ UNCHANGED <<pidFile, tmp, alive, cmd, canWrite, stage, ret, text, gp, ikill,
                   concRead, wperr, raised>>

\* No exception.
NoError == [at |-> "none", type |-> "none"]

\* The try block of write_pid raises at step `at` an exception of the given
\* type, with the descriptor in the given state; the except clause is entered.
WpFails(i, at, type, desc) ==
    /\ wperr' = [wperr EXCEPT ![i] = [at |-> at, type |-> type]]
    /\ fd' = [fd EXCEPT ![i] = desc]
    /\ ipc' = [ipc EXCEPT ![i] = "wp_except"]
    /\ UNCHANGED <<pidFile, tmp, alive, cmd, canWrite, stage, ret, text, gp, ikill,
                   concRead, raised>>

\* write_pid: os.write(fd, ...) raises OSError (disk full, I/O error).
WpWriteFails(i) ==
    /\ ipc[i] = "wp_write"
    /\ WpFails(i, "write", "OSError", "open")

\* write_pid: os.close(fd) raises OSError. The descriptor is released on Linux
\* and left open on some other systems.
WpCloseFails(i) ==
    /\ ipc[i] = "wp_close"
    /\ \E desc \in {"open", "closed"} : WpFails(i, "close", "OSError", desc)

\* write_pid: os.rename(temp_path, self.pid_file) raises OSError, or its
\* subclass PermissionError (the PID file belongs to another user in a sticky
\* directory).
WpRenameFails(i) ==
    /\ ipc[i] = "wp_rename"
    /\ \E type \in {"OSError", "PermissionError"} : WpFails(i, "rename", type, fd[i])

\* write_pid, except Exception: os.close(fd); os.unlink(temp_path); raise.
\* os.close of a descriptor that is closed already raises OSError (EBADF), which
\* leaves the except clause before the unlink. run_foreground catches only
\* PermissionError and goes on without a PID file; anything else ends the
\* process.
WpExcept(i) ==
    /\ ipc[i] = "wp_except"
    /\ IF fd[i] = "open"
       THEN /\ fd' = [fd EXCEPT ![i] = "closed"]
            /\ tmp' = [tmp EXCEPT ![i] = NoFile]
            /\ raised' = [raised EXCEPT ![i] = wperr[i]]
       ELSE /\ raised' = [raised EXCEPT ![i] = [at |-> "except", type |-> "OSError"]]
            /\ UNCHANGED <<fd, tmp>>
    /\ IF cmd[i] = "foreground" /\ raised'[i].type = "PermissionError"
       THEN ipc' = [ipc EXCEPT ![i] = "running"] /\ UNCHANGED alive
       ELSE Exits(i, "crashed")
    /\ UNCHANGED <<pidFile, cmd, canWrite, stage, ret, text, gp, ikill, concRead, wperr>>

\* write_pid: os.rename(temp_path, self.pid_file). run_foreground then enters its
\* loop; run_daemon installs the handlers and logs get_pid() first.
WpRename(i) ==
    /\ ipc[i] = "wp_rename"
    /\ pidFile' = tmp[i]
    /\ tmp' = [tmp EXCEPT ![i] = NoFile]
    /\ IF cmd[i] = "foreground"
       THEN ipc' = [ipc EXCEPT ![i] = "running"] /\ UNCHANGED ret
       ELSE /\ ipc' = [ipc EXCEPT ![i] = "gp_exists"]
            /\ ret' = [ret EXCEPT ![i] = "running"]
    /\ UNCHANGED <<alive, cmd, canWrite, stage, text, gp, ikill, concRead>>

\* SIGINT / SIGTERM reaches invocation i's handler.
SignalInst(i) ==
    /\ HandlerInstalled(i)
    /\ ikill' = [ikill EXCEPT ![i] = TRUE]
    /\ UNCHANGED <<pidFile, tmp, alive, ipc, cmd, canWrite, stage, ret, text, gp,
                   concRead>>

\* The run loop sees kill_now and ends. run_daemon cleans up and returns (the
\* PID file stays); run_foreground goes on to its finally block.
LoopExit(i) ==
    /\ ipc[i] = "running"
    /\ ikill[i]
    /\ IF cmd[i] = "foreground"
       THEN ipc' = [ipc EXCEPT ![i] = "fg_cleanup"] /\ UNCHANGED alive
       ELSE Exits(i, "done")
    /\ UNCHANGED <<pidFile, tmp, cmd, canWrite, stage, ret, text, gp, ikill, concRead>>

\* run_foreground, finally: self.cleanup(); self.daemon_manager._cleanup_pid_file()
FgCleanup(i) ==
    /\ ipc[i] = "fg_cleanup"
    /\ cleanup_pid_file(i)
    /\ Exits(i, "done")
    /\ UNCHANGED <<tmp, cmd, canWrite, stage, ret, text, gp, ikill, concRead>>

\* ------------------------------------------------------------ get_uptime()
\* The last second of the clock.
MaxClock == 3

\* The state of the PID-file protocol that one manager object's queries leave
\* alone.
restPidVars == <<tmp, ipc, cmd, canWrite, stage, ret, text, gp, ikill, concRead>>
notUptimeVars == <<loopVars, restPidVars, stopVars, rateVars, gpuVars, pureVars,
                   daemonVars, wpVars>>

\* get_pid(): the PID in the file if the file is there, holds a number and the
\* process exists (os.kill(pid, 0)); else None, written 0.
get_pid ==
    IF ~pidFile.exists THEN 0
    ELSE LET t == strip(pidFile.text) IN
         IF IsInt(t) /\ int(t) \in alive THEN int(t) ELSE 0

\* get_pid() removes a PID file whose process is missing or whose content is
\* not a number; Cleaned is the effect of one get_pid() call of the manager.
Cleaned ==
    /\ pidFile' = IF get_pid = 0 THEN NoFile ELSE pidFile
    /\ missing' = IF pidFile.exists /\ get_pid = 0 /\ IsInt(strip(pidFile.text))
                  THEN missing \cup {int(strip(pidFile.text))}
                  ELSE missing

\* What get_uptime() returned: None, "unknown" or a number of seconds, for the
\* process `pid` that is_running() saw, from the start time read for `of`.
Uptime(r, seconds, pid, of) == [ret |-> r, seconds |-> seconds, pid |-> pid, of |-> of]

\* start --daemon by another command: refused while an instance runs, else the
\* new daemon (second child of invocation i) writes its PID file.
DaemonStarts(i) ==
    /\ Pid(i, 2) \notin DOMAIN started
    /\ get_pid = 0
    /\ pidFile' = File(Format(Pid(i, 2)))
    /\ alive' = alive \cup {Pid(i, 2)}
    /\ started' = (Pid(i, 2) :> clock) @@ started
    /\ UNCHANGED <<clock, start_time, cached_of, up_pc, up_pid, up_result, missing>>

\* A daemon ends without removing its PID file (run_daemon never removes it).
DaemonDies(p) ==
    /\ p \in alive
    /\ alive' = alive \ {p}
    /\ UNCHANGED <<pidFile, clock, started, start_time, cached_of, up_pc, up_pid,
                   up_result, missing>>

\* A second passes.
Tick ==
    /\ clock < MaxClock
    /\ clock' = clock + 1
    /\ UNCHANGED <<pidFile, alive, started, start_time, cached_of, up_pc, up_pid,
                   up_result, missing>>

\* The manager's get_pid() / is_running(), outside get_uptime().
MgrGetPid ==
    /\ up_pc = "idle"
    /\ Cleaned
    /\ UNCHANGED <<alive, clock, started, start_time, cached_of, up_pc, up_pid,
                   up_result>>

\* get_uptime: if not self.is_running(): return None
UpIsRunning ==
    /\ up_pc = "idle"
    /\ Cleaned
    /\ IF get_pid = 0
       THEN up_result' = Uptime("None", 0, 0, 0) /\ UNCHANGED <<up_pc, up_pid>>
       ELSE up_pc' = "is_running" /\ up_pid' = get_pid /\ UNCHANGED up_result
    /\ UNCHANGED <<alive, clock, started, start_time, cached_of>>

\* get_uptime, after is_running(): with no cached _start_time, get_pid() again
\* and the start time of that process from /proc; "unknown" if there is still
\* none; else datetime.now() - self._start_time in whole seconds.
UpCompute ==
    /\ up_pc = "is_running"
    /\ IF start_time = <<>>
       THEN /\ Cleaned
            /\ start_time' = IF get_pid # 0 THEN <<started[get_pid]>> ELSE <<>>
            /\ cached_of' = get_pid
       ELSE UNCHANGED <<pidFile, missing, start_time, cached_of>>
    /\ up_result' = IF start_time' = <<>> THEN Uptime("unknown", 0, up_pid, 0)
                    ELSE Uptime("seconds", clock - start_time'[1], up_pid, cached_of')
    /\ up_pc' = "idle"
    /\ UNCHANGED <<alive, clock, started, up_pid>>

\* A new manager object: no daemon was started, nothing is cached.
UpQuiet ==
    /\ clock = 0
    /\ started = << >>
    /\ start_time = <<>>
    /\ cached_of = 0
    /\ up_pc = "idle"
    /\ up_pid = 0
    /\ up_result = Uptime("pending", 0, 0, 0)
    /\ missing = {}

\* No invocation has been started.
PidQuiet ==
    /\ tmp = [i \in Inst |-> NoFile]
    /\ alive = {}
    /\ ipc = [i \in Inst |-> "idle"]
    /\ cmd = [i \in Inst |-> "none"]
    /\ canWrite = [i \in Inst |-> FALSE]
    /\ stage = [i \in Inst |-> 0]
    /\ ret = [i \in Inst |-> "none"]
    /\ text = [i \in Inst |-> NoFile]
    /\ gp = [i \in Inst |-> 0]
    /\ ikill = [i \in Inst |-> FALSE]
    /\ concRead = {}
    /\ dlog = [i \in Inst |-> <<>>]
    /\ fd = [i \in Inst |-> "none"]
    /\ wperr = [i \in Inst |-> NoError]
    /\ raised = [i \in Inst |-> NoError]
    /\ UpQuiet

\* ------------------------------------------------------------ stop()
\* daemon.py:187 -- for _ in range(30)
MaxProbes == 30

\* The PID of a daemon that was started before the commands modelled here.
Daemon0 == Pid(9, 9)

\* No stop() has been called and no get_pid() has looked at the PID file.
StopQuiet ==
    /\ canSignal = [i \in Inst |-> FALSE]
    /\ probes = [i \in Inst |-> 0]
    /\ sig = [i \in Inst |-> <<>>]
    /\ goneSeen = [i \in Inst |-> FALSE]
    /\ permErr = [i \in Inst |-> FALSE]
    /\ stopRet = [i \in Inst |-> "none"]
    /\ delPid = [i \in Inst |-> 0]
    /\ seen = [i \in Inst |-> NoFile]

\* Control states in which an invocation is not in the middle of a command.
Resting == {"idle", "running", "done", "crashed"}

\* Invocation i is the only one in the middle of a command.
Solo(i) == \A j \in Inst \ {i} : ipc[j] \in Resting

SeqCommands == {"daemon", "status", "stop"}

\* A command is started: cli.start --daemon, cli.status or cli.stop. Each begins
\* with is_running(), that is get_pid(). The invocations are numbered in the
\* order they are started; only stop signals a process.
ChooseSeq(i) ==
    /\ ipc[i] = "idle"
    /\ \A j \in 1..(i - 1) : ipc[j] # "idle"
    /\ \E c \in SeqCommands, w \in BOOLEAN, k \in BOOLEAN :
          /\ c # "stop" => ~k
          /\ cmd' = [cmd EXCEPT ![i] = c]
          /\ canWrite' = [canWrite EXCEPT ![i] = w]
          /\ canSignal' = [canSignal EXCEPT ![i] = k]
          /\ ret' = [ret EXCEPT ![i] = CASE c = "daemon" -> "cli_checked"
                                         [] c = "status" -> "done"
                                         [] c = "stop" -> "stop_checked"]
    /\ ipc' = [ipc EXCEPT ![i] = "gp_exists"]
    /\ alive' = alive \cup {Pid(i, 0)}
    /\ UNCHANGED <<pidFile, tmp, stage, text, gp, ikill, concRead>>
    /\ UNCHANGED <<probes, sig, goneSeen, permErr, stopRet, delPid, seen>>

\* cli.stop: if not is_running(): return; pid = daemon_manager.get_pid()
StopChecked(i) ==
    /\ ipc[i] = "stop_checked"
    /\ IF gp[i] = 0
       THEN Exits(i, "done") /\ UNCHANGED ret
       ELSE /\ ipc' = [ipc EXCEPT ![i] = "gp_exists"]
            /\ ret' = [ret EXCEPT ![i] = "stop_pid"]
            /\ UNCHANGED alive
    /\ UNCHANGED <<pidFile, tmp, cmd, canWrite, stage, text, gp, ikill, concRead>>
    /\ UNCHANGED stopVars

\* cli.stop: daemon_manager.stop(), which begins with pid = self.get_pid()
StopPid(i) ==
    /\ ipc[i] = "stop_pid"
    /\ ipc' = [ipc EXCEPT ![i] = "gp_exists"]
    /\ ret' = [ret EXCEPT ![i] = "stop_entered"]
    /\ UNCHANGED <<pidFile, tmp, alive, cmd, canWrite, stage, text, gp, ikill, concRead>>
    /\ UNCHANGED stopVars

\* stop() returns v, after _cleanup_pid_file() when clean; cli.stop then ends.
StopEnds(i, v, clean) ==
    /\ stopRet' = [stopRet EXCEPT ![i] = v]
    /\ IF clean
       THEN /\ cleanup_pid_file(i)
            /\ delPid' = [delPid EXCEPT ![i] = IF canWrite[i] /\ pidFile.exists
                                               THEN gp[i] ELSE @]
       ELSE UNCHANGED <<pidFile, delPid>>
    /\ Exits(i, "done")

\* stop: if pid is None: return True
StopEntered(i) ==
    /\ ipc[i] = "stop_entered"
    /\ IF gp[i] = 0
       THEN StopEnds(i, "true", FALSE)
       ELSE /\ ipc' = [ipc EXCEPT ![i] = "st_term"]
            /\ UNCHANGED <<pidFile, alive, stopRet, delPid>>
    /\ UNCHANGED <<tmp, cmd, canWrite, stage, ret, text, gp, ikill, concRead>>
    /\ UNCHANGED <<canSignal, probes, sig, goneSeen, permErr, seen>>

\* os.kill(pid, s) raises ProcessLookupError when no process has the PID and
\* PermissionError when the caller may not signal it.
KillRaises(i) ==
    IF gp[i] \notin alive THEN "ProcessLookupError"
    ELSE IF ~canSignal[i] THEN "PermissionError"
    ELSE "none"

\* Mutant: a process that is already gone counts as a failed stop.
StopExcept_GoneIsFailure(i, e) ==
    /\ IF e = "ProcessLookupError"
       THEN goneSeen' = [goneSeen EXCEPT ![i] = TRUE] /\ UNCHANGED permErr
       ELSE permErr' = [permErr EXCEPT ![i] = TRUE] /\ UNCHANGED goneSeen
    /\ StopEnds(i, "false", e = "ProcessLookupError")

\* stop: an os.kill call raised e: except ProcessLookupError cleans up and
\* returns True, except PermissionError returns False.
StopExcept(i, e) ==
    IF e = "ProcessLookupError"
    THEN /\ goneSeen' = [goneSeen EXCEPT ![i] = TRUE]
         /\ StopEnds(i, "true", TRUE)
         /\ UNCHANGED permErr
    ELSE /\ permErr' = [permErr EXCEPT ![i] = TRUE]
         /\ StopEnds(i, "false", FALSE)
         /\ UNCHANGED goneSeen

\* stop: os.kill(pid, signal.SIGTERM); the handler of a collector sets kill_now.
StTerm(i) ==
    /\ ipc[i] = "st_term"
    /\ IF KillRaises(i) # "none"
       THEN StopExcept(i, KillRaises(i)) /\ UNCHANGED <<sig, ikill>>
       ELSE /\ sig' = [sig EXCEPT ![i] = Append(@, "SIGTERM")]
            /\ ikill' = [j \in Inst |->
                            ikill[j] \/ (CurPid(j) = gp[i] /\ HandlerInstalled(j))]
            /\ ipc' = [ipc EXCEPT ![i] = "st_probe"]
            /\ UNCHANGED <<pidFile, alive, goneSeen, permErr, stopRet, delPid>>
    /\ UNCHANGED <<tmp, cmd, canWrite, stage, ret, text, gp, concRead>>
    /\ UNCHANGED <<canSignal, probes, seen>>

\* Mutant: the kill is sent as soon as one probe has found the process present.
StProbe_EscalatesEarly(i) ==
    /\ ipc[i] = "st_probe"
    /\ probes' = [probes EXCEPT ![i] = @ + 1]
    /\ IF KillRaises(i) # "none"
       THEN StopExcept(i, KillRaises(i))
       ELSE /\ ipc' = [ipc EXCEPT ![i] = "st_kill"]
            /\ UNCHANGED <<pidFile, alive, goneSeen, permErr, stopRet, delPid>>
    /\ UNCHANGED <<tmp, cmd, canWrite, stage, ret, text, gp, ikill, concRead>>
    /\ UNCHANGED <<canSignal, sig, seen>>

\* stop: one round of the wait loop: time.sleep(0.1); os.kill(pid, 0). After
\* the last round the loop is left towards the SIGKILL.
StProbe(i) ==
    /\ ipc[i] = "st_probe"
    /\ probes' = [probes EXCEPT ![i] = @ + 1]
    /\ IF KillRaises(i) # "none"
       THEN StopExcept(i, KillRaises(i))
       ELSE /\ ipc' = [ipc EXCEPT ![i] = IF probes[i] + 1 = MaxProbes
                                         THEN "st_kill" ELSE "st_probe"]
            /\ UNCHANGED <<pidFile, alive, goneSeen, permErr, stopRet, delPid>>
    /\ UNCHANGED <<tmp, cmd, canWrite, stage, ret, text, gp, ikill, concRead>>
    /\ UNCHANGED <<canSignal, sig, seen>>

\* stop: os.kill(pid, signal.SIGKILL)
StKill(i) ==
    /\ ipc[i] = "st_kill"
    /\ IF KillRaises(i) # "none"
       THEN StopExcept(i, KillRaises(i)) /\ UNCHANGED sig
       ELSE /\ sig' = [sig EXCEPT ![i] = Append(@, "SIGKILL")]
            /\ ipc' = [ipc EXCEPT ![i] = "st_kill_wait"]
            /\ UNCHANGED <<pidFile, alive, goneSeen, permErr, stopRet, delPid>>
    /\ UNCHANGED <<tmp, cmd, canWrite, stage, ret, text, gp, ikill, concRead>>
    /\ UNCHANGED <<canSignal, probes, seen>>

\* stop: time.sleep(0.1); self._cleanup_pid_file(); return True
StKillWait(i) ==
    /\ ipc[i] = "st_kill_wait"
    /\ StopEnds(i, "true", TRUE)
    /\ UNCHANGED <<tmp, cmd, canWrite, stage, ret, text, gp, ikill, concRead>>
    /\ UNCHANGED <<canSignal, probes, sig, goneSeen, permErr, seen>>

\* A daemon's process ends: it left its loop after a signal, was killed, or
\* failed. The kernel decides when a signalled process is gone.
TargetDies ==
    \E p \in alive :
        /\ \/ p = Daemon0
           \/ \E j \in Inst : CurPid(j) = p /\ ipc[j] = "running"
        /\ alive' = alive \ {p}
        /\ ipc' = [j \in Inst |-> IF CurPid(j) = p /\ ipc[j] = "running"
                                  THEN "done" ELSE ipc[j]]
        /\ UNCHANGED <<pidFile, tmp, cmd, canWrite, stage, ret, text, gp, ikill,
                       concRead>>
        /\ UNCHANGED stopVars

\* ------------------------------------------------------------ rate engine
\* Largest number of node_cpu_seconds_total samples in one scraped document.
MaxSamples == 2
\* Number of polls explored on one exporter.
MaxPolls == 3

\* A sample without a cpu label.
NoLabel == "(no cpu label)"

\* The samples get_all_values("node_cpu_seconds_total") can return: labels and a
\* value (counters in whole seconds).
SampleValues == {1, 3}
Samples == [cpu : {NoLabel, "1"}, mode : {"idle", "user"}, value : SampleValues]

\* The place of a sample in a document: node_exporter writes the samples of a
\* metric sorted by their labels.
Rank(x) == (IF x.cpu = NoLabel THEN 0 ELSE 100) + (IF x.mode = "idle" THEN 0 ELSE 10)
           + x.value

\* The sample lists of at most n samples, in document order.
RECURSIVE SampleLists(_)
SampleLists(n) ==
    IF n = 0 THEN {<<>>}
    ELSE LET shorter == SampleLists(n - 1) IN
         shorter \cup UNION {{Append(l, x) : x \in {y \in Samples :
                                    \A k \in 1..(n - 1) : Rank(l[k]) <= Rank(y)}} :
                              l \in {m \in shorter : Len(m) = n - 1}}

\* The loop over cpu_seconds that fills total_by_cpu and idle_by_cpu.
RECURSIVE SumByCpu(_)
SumByCpu(cpu_seconds) ==
    IF cpu_seconds = <<>> THEN [total |-> EmptyMap, idle |-> EmptyMap]
    ELSE LET n == Len(cpu_seconds)
             acc == SumByCpu(SubSeq(cpu_seconds, 1, n - 1))
             cpu == IF cpu_seconds[n].cpu = NoLabel THEN "0" ELSE cpu_seconds[n].cpu
             value == cpu_seconds[n].value
             t == Get(acc.total, cpu, 0) + value
             d == Get(acc.idle, cpu, 0) + (IF cpu_seconds[n].mode = "idle" THEN value ELSE 0)
         IN  [total |-> Put(acc.total, cpu, t), idle |-> Put(acc.idle, cpu, d)]

\* The sum of f over the set S.
RECURSIVE SetSum(_, _)
SetSum(f, S) ==
    IF S = {} THEN 0
    ELSE LET c == CHOOSE x \in S : TRUE IN f[c] + SetSum(f, S \ {c})

\* The loop over total_by_cpu that adds up the deltas of the CPUs that the
\* previous state knows.
Delta(cur, prev) ==
    LET known == {c \in DOMAIN cur : c \in DOMAIN prev_cpu_total} IN
    SetSum([c \in known |-> cur[c] - Get(prev, c, 0)], known)

\* A float with an exact value: the fraction n / d in lowest terms, d > 0.
RECURSIVE Gcd(_, _)
Gcd(a, b) == IF b = 0 THEN a ELSE Gcd(b, a % b)
Frac(n, d) == LET g == Gcd(IF n < 0 THEN -n ELSE n, d) IN [num |-> n \div g, den |-> d \div g]
Zero == Frac(0, 1)
Hundred == Frac(100, 1)
Less(x, y) == x.num * y.den < y.num * x.den
Min(x, y) == IF Less(y, x) THEN y ELSE x
Max(x, y) == IF Less(x, y) THEN y ELSE x

\* Mutant: the percentage is returned as computed, not clamped.
UsageOf_Unclamped(total_delta, idle_delta) ==
    IF total_delta <= 0 THEN Zero
    ELSE Frac((total_delta - idle_delta) * 100, total_delta)

\* _calculate_cpu_usage, from the deltas on: 0.0 when total_delta <= 0, else
\* max(0.0, min(100.0, ((total_delta - idle_delta) / total_delta) * 100.0))
UsageOf(total_delta, idle_delta) ==
    IF total_delta <= 0 THEN Zero
    ELSE Max(Zero, Min(Hundred, Frac((total_delta - idle_delta) * 100, total_delta)))

\* Mutant: the first measurement returns 0 without storing its values.
CalculateCpuUsage_ForgetsFirst ==
    /\ polls < MaxPolls
    /\ polls' = polls + 1
    /\ scrape' = "ok"
    /\ \E cpu_seconds \in SampleLists(MaxSamples) :
        /\ parsed' = cpu_seconds
        /\ lastFull' = IF cpu_seconds = <<>> THEN lastFull ELSE cpu_seconds
        /\ IF cpu_seconds = <<>>
           THEN /\ cpu_usage' = Zero
                /\ UNCHANGED <<prev_cpu_total, prev_cpu_idle>>
           ELSE LET by_cpu == SumByCpu(cpu_seconds) IN
                IF prev_cpu_total = None \/ prev_cpu_idle = None
                THEN /\ cpu_usage' = Zero
                     /\ prev_cpu_total' = IF polls = 0 THEN None ELSE by_cpu.total
                     /\ prev_cpu_idle' = IF polls = 0 THEN None ELSE by_cpu.idle
                ELSE /\ prev_cpu_total' = by_cpu.total
                     /\ prev_cpu_idle' = by_cpu.idle
                     /\ cpu_usage' = UsageOf(Delta(by_cpu.total, prev_cpu_total),
                                             Delta(by_cpu.idle, prev_cpu_idle))

\* A CalculateCpuUsage that keeps the stored sums of the CPUs the poll lacks.
CalculateCpuUsage_MergesState ==
    /\ polls < MaxPolls
    /\ polls' = polls + 1
    /\ scrape' = "ok"
    /\ \E cpu_seconds \in SampleLists(MaxSamples) :
        /\ parsed' = cpu_seconds
        /\ lastFull' = IF cpu_seconds = <<>> THEN lastFull ELSE cpu_seconds
        /\ IF cpu_seconds = <<>>
           THEN /\ cpu_usage' = Zero
                /\ UNCHANGED <<prev_cpu_total, prev_cpu_idle>>
           ELSE LET by_cpu == SumByCpu(cpu_seconds)
                    merged(old, new) ==
                        [c \in DOMAIN old \cup DOMAIN new |->
                            IF c \in DOMAIN new THEN new[c] ELSE old[c]]
                IN
                IF prev_cpu_total = None \/ prev_cpu_idle = None
                THEN /\ cpu_usage' = Zero
                     /\ prev_cpu_total' = by_cpu.total
                     /\ prev_cpu_idle' = by_cpu.idle
                ELSE /\ prev_cpu_total' = merged(prev_cpu_total, by_cpu.total)
                     /\ prev_cpu_idle' = merged(prev_cpu_idle, by_cpu.idle)
                     /\ cpu_usage' = UsageOf(Delta(by_cpu.total, prev_cpu_total),
                                             Delta(by_cpu.idle, prev_cpu_idle))

\* NodeExporter._calculate_cpu_usage(parsed) for a scraped document whose
\* node_cpu_seconds_total samples are cpu_seconds.
CalculateCpuUsage ==
    /\ polls < MaxPolls
    /\ polls' = polls + 1
    /\ scrape' = "ok"
    /\ \E cpu_seconds \in SampleLists(MaxSamples) :
        /\ parsed' = cpu_seconds
        /\ lastFull' = IF cpu_seconds = <<>> THEN lastFull ELSE cpu_seconds
        /\ IF cpu_seconds = <<>>
           THEN /\ cpu_usage' = Zero
                /\ UNCHANGED <<prev_cpu_total, prev_cpu_idle>>
           ELSE LET by_cpu == SumByCpu(cpu_seconds) IN
                /\ prev_cpu_total' = by_cpu.total
                /\ prev_cpu_idle' = by_cpu.idle
                /\ IF prev_cpu_total = None \/ prev_cpu_idle = None
                   THEN cpu_usage' = Zero
                   ELSE cpu_usage' = UsageOf(Delta(by_cpu.total, prev_cpu_total),
                                             Delta(by_cpu.idle, prev_cpu_idle))

\* NodeExporter.get_metrics() whose scrape() returned None: it returns None
\* before any of the derivations is called.
ScrapeFails ==
    /\ polls < MaxPolls
    /\ scrape' = "failed"
    /\ UNCHANGED <<parsed, prev_cpu_total, prev_cpu_idle, cpu_usage, lastFull, polls>>

\* A NodeExporter that has not polled yet.
RateQuiet ==
    /\ parsed = <<>>
    /\ prev_cpu_total = None
    /\ prev_cpu_idle = None
    /\ cpu_usage = None
    /\ lastFull = <<>>
    /\ polls = 0
    /\ scrape = "none"

\* ------------------------------------------------------------ nvidia-smi exporter
\* Number of is_available() / get_metrics() calls explored on one exporter.
MaxCalls == 3

\* How a run of nvidia-smi can end: exit status 0, another exit status, or an
\* exception (timeout, the binary cannot be executed).
RunOutcomes == {"ok", "nonzero", "raises"}

\* nvidia_smi_path: the configured or remembered path, else shutil.which().
nvidia_smi_path(onPath) ==
    IF nv_path # "None" THEN nv_path
    ELSE IF onPath THEN "/usr/bin/nvidia-smi" ELSE "None"

\* Mutant: only a successful probe is remembered.
is_available_RetriesFailure(onPath, probe) ==
    IF nv_available = "True"
    THEN [available |-> nv_available, path |-> nv_path, probes |-> nv_probes]
    ELSE IF ~nv_enabled
    THEN [available |-> "False", path |-> nv_path, probes |-> nv_probes]
    ELSE IF nvidia_smi_path(onPath) = "None"
    THEN [available |-> "False", path |-> "None", probes |-> nv_probes]
    ELSE [available |-> IF probe = "ok" THEN "True" ELSE "False",
          path |-> nvidia_smi_path(onPath),
          probes |-> nv_probes + 1]

\* NvidiaExporter.is_available(): the new _available (which is also the value
\* returned), the new _nvidia_smi_path and the number of probe runs so far.
is_available(onPath, probe) ==
    IF nv_available # "None"
    THEN [available |-> nv_available, path |-> nv_path, probes |-> nv_probes]
    ELSE IF ~nv_enabled
    THEN [available |-> "False", path |-> nv_path, probes |-> nv_probes]
    ELSE IF nvidia_smi_path(onPath) = "None"
    THEN [available |-> "False", path |-> "None", probes |-> nv_probes]
    ELSE [available |-> IF probe = "ok" THEN "True" ELSE "False",
          path |-> nvidia_smi_path(onPath),
          probes |-> nv_probes + 1]

\* A call of is_available() from outside (check_exporters).
IsAvailable ==
    /\ nv_calls < MaxCalls
    /\ \E onPath \in BOOLEAN, probe \in RunOutcomes :
          LET r == is_available(onPath, probe) IN
          /\ nv_available' = r.available
          /\ nv_path' = r.path
          /\ nv_probes' = r.probes
          /\ nv_ret' = r.available
          /\ nv_world' = <<onPath, probe>>
    /\ nv_calls' = nv_calls + 1
    /\ UNCHANGED nv_enabled

\* A call of get_metrics(): None when disabled or not available, else the
\* parsed output of the query run, None when that run fails.
GetMetrics ==
    /\ nv_calls < MaxCalls
    /\ \E onPath \in BOOLEAN, probe \in RunOutcomes, run \in RunOutcomes :
          /\ nv_world' = <<onPath, probe>>
          /\ IF ~nv_enabled
             THEN /\ nv_ret' = "None"
                  /\ UNCHANGED <<nv_available, nv_path, nv_probes>>
             ELSE LET r == is_available(onPath, probe) IN
                  /\ nv_available' = r.available
                  /\ nv_path' = r.path
                  /\ nv_probes' = r.probes
                  /\ nv_ret' = IF r.available = "True" /\ run = "ok"
                               THEN "metrics" ELSE "None"
    /\ nv_calls' = nv_calls + 1
    /\ UNCHANGED nv_enabled

\* The exporter of the other specifications: constructed, never asked.
GpuQuiet ==
    /\ nv_enabled = TRUE
    /\ nv_path = "None"
    /\ nv_available = "None"
    /\ nv_probes = 0
    /\ nv_calls = 0
    /\ nv_ret = "none"
    /\ nv_world = <<FALSE, "ok">>

\* ------------------------------------------------------------ exposition parser
\* Text is a sequence of characters. The character classes of the two regular
\* expressions, over the letters that occur in the modelled documents.
Letters == {"a", "b", "f", "m", "n", "x", "I", "N"}
NameStartChars == Letters \cup {"_", ":"}
NameChars == NameStartChars \cup DigitChars
KeyStartChars == Letters \cup {"_"}
KeyChars == KeyStartChars \cup DigitChars

\* The end of the longest run of characters of class C that starts at p.
RECURSIVE Span(_, _, _)
Span(s, p, C) == IF p <= Len(s) /\ s[p] \in C THEN Span(s, p + 1, C) ELSE p

\* The place of the first c at or after p, Len(s) + 1 if there is none.
RECURSIVE Find(_, _, _)
Find(s, p, c) == IF p <= Len(s) /\ s[p] # c THEN Find(s, p + 1, c) ELSE p

\* str.startswith(old) at place p, and str.replace(old, new).
StartsWithAt(s, p, old) ==
    p + Len(old) - 1 <= Len(s) /\ SubSeq(s, p, p + Len(old) - 1) = old
RECURSIVE ReplaceFrom(_, _, _, _)
ReplaceFrom(s, p, old, new) ==
    IF p > Len(s) THEN <<>>
    ELSE IF StartsWithAt(s, p, old) THEN new \o ReplaceFrom(s, p + Len(old), old, new)
    ELSE <<s[p]>> \o ReplaceFrom(s, p + 1, old, new)
replace(s, old, new) == ReplaceFrom(s, 1, old, new)

\* parse_labels, line 95: the three replacements, one after the other.
Unescape(value) ==
    replace(replace(replace(value, <<"\\", "\"">>, <<"\"">>),
                    <<"\\", "\\">>, <<"\\">>),
            <<"\\", "n">>, <<"\n">>)

\* LABEL_PATTERN, the quoted value (?:[^"\\]|\\.)* and the closing quote: the
\* place of the closing quote, 0 if the value does not end.
RECURSIVE LabelValueEnd(_, _)
LabelValueEnd(s, p) ==
    IF p > Len(s) THEN 0
    ELSE IF s[p] = "\"" THEN p
    ELSE IF s[p] = "\\"
         THEN IF p + 1 <= Len(s) /\ s[p + 1] # "\n" THEN LabelValueEnd(s, p + 2) ELSE 0
    ELSE LabelValueEnd(s, p + 1)

\* LABEL_PATTERN matched at place p of s.
MatchLabel(s, p) ==
    LET keyEnd == IF p <= Len(s) /\ s[p] \in KeyStartChars
                  THEN Span(s, p + 1, KeyChars) ELSE 0
        eq == Span(s, keyEnd, Whitespace)
        quote == Span(s, eq + 1, Whitespace)
        close == LabelValueEnd(s, quote + 1)
    IN  IF /\ keyEnd # 0
           /\ eq <= Len(s) /\ s[eq] = "="
           /\ quote <= Len(s) /\ s[quote] = "\""
           /\ close # 0
        THEN [ok |-> TRUE, key |-> SubSeq(s, p, keyEnd - 1),
              value |-> SubSeq(s, quote + 1, close - 1), end |-> close + 1]
        ELSE [ok |-> FALSE, key |-> <<>>, value |-> <<>>, end |-> p]

\* parse_labels: LABEL_PATTERN.finditer over the label string, from place p on.
RECURSIVE FindLabels(_, _, _)
FindLabels(s, p, labels) ==
    IF p > Len(s) THEN labels
    ELSE LET match == MatchLabel(s, p) IN
         IF match.ok
         THEN FindLabels(s, match.end, Put(labels, match.key, Unescape(match.value)))
         ELSE FindLabels(s, p + 1, labels)
parse_labels(label_str) == FindLabels(label_str, 1, EmptyMap)

\* Floats outside the finite ones.
PosInf == [num |-> 1, den |-> 0]
NegInf == [num |-> -1, den |-> 0]
NaN == [num |-> 0, den |-> 0]

RECURSIVE Pow10(_)
Pow10(k) == IF k = 0 THEN 1 ELSE 10 * Pow10(k - 1)

\* METRIC_LINE_PATTERN, the float literal
\* [+-]?(?:\d+\.?\d*|\d*\.?\d+)(?:[eE][+-]?\d+)? : its parts, ok if v is one.
FloatParts(v) ==
    LET n == Len(v)
        i0 == IF n >= 1 /\ v[1] \in {"+", "-"} THEN 2 ELSE 1
        i1 == Span(v, i0, DigitChars)
        f0 == IF i1 <= n /\ v[i1] = "." THEN i1 + 1 ELSE i1
        f1 == Span(v, f0, DigitChars)
        hasExp == f1 <= n /\ v[f1] \in {"e", "E"}
        e0 == IF hasExp /\ f1 + 1 <= n /\ v[f1 + 1] \in {"+", "-"} THEN f1 + 2 ELSE f1 + 1
        e1 == IF hasExp THEN Span(v, e0, DigitChars) ELSE f1
    IN  [ok |-> /\ (i1 > i0 \/ f1 > f0)
                /\ (hasExp => e1 > e0)
                /\ e1 = n + 1,
         negative |-> n >= 1 /\ v[1] = "-",
         whole |-> SubSeq(v, i0, i1 - 1),
         fraction |-> SubSeq(v, f0, f1 - 1),
         expNegative |-> hasExp /\ v[f1 + 1] = "-",
         exponent |-> IF hasExp THEN SubSeq(v, e0, e1 - 1) ELSE <<>>]

\* METRIC_LINE_PATTERN, group value.
IsValue(v) ==
    \/ v \in {<<"+", "I", "n", "f">>, <<"-", "I", "n", "f">>, <<"I", "n", "f">>,
              <<"N", "a", "N">>}
    \/ FloatParts(v).ok

\* float(value_str) of a float literal, as an exact fraction.
float(v) ==
    LET parts == FloatParts(v)
        digits == int(parts.whole \o parts.fraction)
        mantissa == IF parts.negative THEN -digits ELSE digits
        scale == Len(parts.fraction)
        e == int(parts.exponent)
    IN  IF parts.expNegative THEN Frac(mantissa, Pow10(scale + e))
        ELSE IF e >= scale THEN Frac(mantissa * Pow10(e - scale), 1)
        ELSE Frac(mantissa, Pow10(scale - e))

\* parse_value
parse_value(value_str) ==
    LET v == strip(value_str) IN
    IF v = <<"+", "I", "n", "f">> \/ v = <<"I", "n", "f">> THEN PosInf
    ELSE IF v = <<"-", "I", "n", "f">> THEN NegInf
    ELSE IF v = <<"N", "a", "N">> THEN NaN
    ELSE float(v)

\* METRIC_LINE_PATTERN.match(line): the groups name, labels and value.
MatchLine(line) ==
    LET n == Len(line)
        nameEnd == IF n >= 1 /\ line[1] \in NameStartChars
                   THEN Span(line, 2, NameChars) ELSE 0
        brace == nameEnd # 0 /\ nameEnd <= n /\ line[nameEnd] = "{"
        close == IF brace THEN Find(line, nameEnd + 1, "}") ELSE 0
        space == IF brace THEN close + 1 ELSE nameEnd
        valueStart == Span(line, space, Whitespace)
        value == SubSeq(line, valueStart, n)
    IN  IF /\ nameEnd # 0
           /\ brace => close <= n
           /\ valueStart > space
           /\ IsValue(value)
        THEN [ok |-> TRUE, name |-> SubSeq(line, 1, nameEnd - 1),
              labels |-> IF brace THEN SubSeq(line, nameEnd + 1, close - 1) ELSE <<>>,
              value |-> value]
        ELSE [ok |-> FALSE, name |-> <<>>, labels |-> <<>>, value |-> <<>>]

\* str.splitlines(): the text between line ends, no empty last line.
RECURSIVE splitlines(_)
splitlines(t) ==
    IF t = <<>> THEN <<>>
    ELSE LET e == Find(t, 1, "\n") IN
         <<SubSeq(t, 1, e - 1)>> \o splitlines(SubSeq(t, e + 1, Len(t)))

\* A parsed sample.
Metric(name, value, labels) == [name |-> name, value |-> value, labels |-> labels]

\* parse_prometheus_text: the loop over the lines.
RECURSIVE ParseLines(_)
ParseLines(lines) ==
    IF lines = <<>> THEN <<>>
    ELSE LET line == strip(Head(lines))
             match == MatchLine(line)
             rest == ParseLines(Tail(lines))
         IN  IF line = <<>> \/ Head(line) = "#" THEN rest
             ELSE IF match.ok
                  THEN <<Metric(match.name, parse_value(match.value),
                                IF match.labels # <<>> THEN parse_labels(match.labels)
                                ELSE EmptyMap)>> \o rest
                  ELSE rest
parse_prometheus_text(t) == ParseLines(splitlines(t))

\* Longest label value explored, in characters.
MaxChars == 2

\* The text of a sample line: a metric name, the labels between braces if there
\* are any, each value between quotes with backslash, quote and newline escaped
\* (the grammar the two patterns read), a space and the value.
EscapeChar(c) ==
    IF c = "\\" THEN <<"\\", "\\">>
    ELSE IF c = "\"" THEN <<"\\", "\"">>
    ELSE IF c = "\n" THEN <<"\\", "n">>
    ELSE <<c>>
RECURSIVE Escape(_)
Escape(value) == IF value = <<>> THEN <<>> ELSE EscapeChar(Head(value)) \o Escape(Tail(value))

RenderValue(v) ==
    IF v = PosInf THEN <<"+", "I", "n", "f">>
    ELSE IF v = NegInf THEN <<"-", "I", "n", "f">>
    ELSE IF v = NaN THEN <<"N", "a", "N">>
    ELSE IF v.num < 0 THEN <<"-">> \o str(-v.num) ELSE str(v.num)

\* The label keys of the modelled samples, in the order they are written.
LabelKeys == <<<<"a">>, <<"x", "1">>>>

RECURSIVE RenderLabels(_, _)
RenderLabels(labels, k) ==
    IF k > Len(LabelKeys) THEN <<>>
    ELSE IF LabelKeys[k] \notin DOMAIN labels THEN RenderLabels(labels, k + 1)
    ELSE LET rest == RenderLabels(labels, k + 1) IN
         LabelKeys[k] \o <<"=", "\"">> \o Escape(labels[LabelKeys[k]]) \o <<"\"">>
         \o (IF rest = <<>> THEN <<>> ELSE <<",">> \o rest)

Render(sample) ==
    sample.name
    \o (IF DOMAIN sample.labels = {} THEN <<>>
        ELSE <<"{">> \o RenderLabels(sample.labels, 1) \o <<"}">>)
    \o <<" ">> \o RenderValue(sample.value)

\* The character sequences of at most n of the given characters.
RECURSIVE Strings(_, _)
Strings(chars, n) ==
    IF n = 0 THEN {<<>>}
    ELSE LET shorter == Strings(chars, n - 1) IN
         shorter \cup {Append(t, c) : t \in shorter, c \in chars}

\* The samples rendered and parsed: label values of backslashes, quotes,
\* newlines and letters, integer and non-finite values.
LabelChars == {"\\", "\"", "\n", "n", "a"}
RtValues == {Frac(0, 1), Frac(15, 1), Frac(-3, 1), PosInf, NegInf, NaN}
RtLabels ==
    UNION {{[k \in K |-> IF k = LabelKeys[1] THEN v ELSE w] :
            v \in Strings(LabelChars, MaxChars), w \in {<<>>, <<"a">>}} :
           K \in SUBSET {LabelKeys[1], LabelKeys[2]}}
RtSamples ==
    {Metric(<<"m", "_", "1">>, v, l) : v \in RtValues, l \in RtLabels}

\* The line is rendered from the sample.
RtRender ==
    /\ rt_step = "sample"
    /\ rt_line' = Render(rt_sample)
    /\ rt_step' = "rendered"
    /\ UNCHANGED <<rt_sample, rt_result>>

\* parse_prometheus_text(line)
RtParse ==
    /\ rt_step = "rendered"
    /\ rt_result' = parse_prometheus_text(rt_line)
    /\ rt_step' = "parsed"
    /\ UNCHANGED <<rt_sample, rt_line>>

RtQuiet ==
    /\ rt_sample = Metric(<<"m", "_", "1">>, Zero, EmptyMap)
    /\ rt_line = <<>>
    /\ rt_result = <<>>
    /\ rt_step = "sample"

\* Largest number of well-formed lines in a document.
MaxLines == 2

\* The samples of the well-formed lines of a document.
DocSamples ==
    {Metric(<<"m", "_", "1">>, Frac(15, 1), EmptyMap),
     Metric(<<"m", "_", "1">>, Zero, [k \in {LabelKeys[1]} |-> <<"a">>]),
     Metric(<<"n">>, PosInf, [k \in {LabelKeys[1], LabelKeys[2]} |-> <<"b">>])}

\* Lines outside the grammar name ['{' key="value",... '}'] value: no value, an
\* open brace, a name that starts with a digit, a value that is no number, a
\* third field, and a label list that is no list of key="value" pairs.
MalformedLines ==
    {<<"m">>,
     <<"m", "{", "a", "=", "\"", "1", "\"", " ", "1">>,
     <<"1", "m", " ", "5">>,
     <<"m", " ", "x">>,
     <<"m", " ", "1", " ", "5">>,
     <<"m", "{", "x", "}", " ", "1">>}

\* A comment line and a blank line.
CommentLine == <<"#", " ", "m">>
BlankLine == <<" ">>

\* The sequences of at most n elements of S.
RECURSIVE Lists(_, _)
Lists(S, n) ==
    IF n = 0 THEN {<<>>}
    ELSE LET shorter == Lists(S, n - 1) IN
         shorter \cup {Append(l, x) : l \in shorter, x \in S}

\* The lines, each ended by a newline.
RECURSIVE JoinLines(_)
JoinLines(lines) ==
    IF lines = <<>> THEN <<>> ELSE Head(lines) \o <<"\n">> \o JoinLines(Tail(lines))

\* The document of the well-formed lines with the malformed line after the
\* first `at` of them, a comment line before them and a blank line behind the
\* malformed one.
Document(samples, bad, at) ==
    JoinLines(<<CommentLine>>
              \o [k \in 1..at |-> Render(samples[k])]
              \o <<bad, BlankLine>>
              \o [k \in 1..(Len(samples) - at) |-> Render(samples[at + k])])

\* parse_prometheus_text(doc_text)
DocParse ==
    /\ doc_result = None
    /\ doc_result' = [metrics |-> parse_prometheus_text(doc_text)]
    /\ UNCHANGED <<doc_samples, doc_bad, doc_at, doc_text>>

DocQuiet ==
    /\ doc_samples = <<>>
    /\ doc_bad = <<>>
    /\ doc_at = 0
    /\ doc_text = <<>>
    /\ doc_result = None

\* ------------------------------------------------------------ disk derivation
\* Largest number of samples of each of the two filesystem metrics.
MaxMounts == 2

\* node.py 212 and 216: the skipped filesystem types and mountpoint prefixes.
PseudoTypes == {"tmpfs", "devtmpfs", "squashfs", "overlay", "devfs", "nullfs"}
ReservedPrefixes ==
    {<<"/", "s", "y", "s">>, <<"/", "p", "r", "o", "c">>, <<"/", "d", "e", "v">>,
     <<"/", "r", "u", "n">>, <<"/", "s", "n", "a", "p">>}

\* str.startswith(tuple of prefixes)
startswith(t, prefixes) == \E q \in prefixes : StartsWithAt(t, 1, q)

\* The characters of the modelled mountpoints in code-point order, and the
\* order of str on them.
CodePoints == <<"/", "a", "b", "d", "e", "s", "v", "y">>
ord(c) == CHOOSE k \in 1..Len(CodePoints) : CodePoints[k] = c
RECURSIVE StrLess(_, _)
StrLess(a, b) ==
    IF b = <<>> THEN FALSE
    ELSE IF a = <<>> THEN TRUE
    ELSE IF Head(a) = Head(b) THEN StrLess(Tail(a), Tail(b))
    ELSE ord(Head(a)) < ord(Head(b))

\* The first loop: the entries by mountpoint, from the size samples.
RECURSIVE SizeLoop(_)
SizeLoop(samples) ==
    IF samples = <<>> THEN EmptyMap
    ELSE LET n == Len(samples)
             mountpoints == SizeLoop(SubSeq(samples, 1, n - 1))
             labels == samples[n].labels
             size == samples[n].value
             mountpoint == Get(labels, "mountpoint", <<>>)
             device == Get(labels, "device", "")
             fstype == Get(labels, "fstype", "")
         IN  IF fstype \in PseudoTypes THEN mountpoints
             ELSE IF startswith(mountpoint, ReservedPrefixes) THEN mountpoints
             ELSE IF mountpoint # <<>> /\ size > 0
                  THEN Put(mountpoints, mountpoint,
                           [k \in {"mountpoint", "device", "total_bytes"} |->
                               IF k = "mountpoint" THEN mountpoint
                               ELSE IF k = "device" THEN device ELSE size])
                  ELSE mountpoints

\* The second loop: available_bytes of the entries, from the available samples.
RECURSIVE AvailLoop(_, _)
AvailLoop(samples, entries) ==
    IF samples = <<>> THEN entries
    ELSE LET n == Len(samples)
             mountpoints == AvailLoop(SubSeq(samples, 1, n - 1), entries)
             mountpoint == Get(samples[n].labels, "mountpoint", <<>>)
         IN  IF mountpoint \in DOMAIN mountpoints
             THEN Put(mountpoints, mountpoint,
                      Put(mountpoints[mountpoint], "available_bytes", samples[n].value))
             ELSE mountpoints

\* round(x, 2) of a fraction: the nearest multiple of 1/100.
Round2(x) ==
    LET a == IF x.num < 0 THEN -x.num ELSE x.num
        hundredths == (2 * 100 * a + x.den) \div (2 * x.den)
    IN  Frac(IF x.num < 0 THEN -hundredths ELSE hundredths, 100)

\* The third loop: one output entry.
DiskEntry(mp_data) ==
    LET total == Get(mp_data, "total_bytes", 0)
        available == Get(mp_data, "available_bytes", 0)
        usage_percent == IF total > 0 THEN Frac((total - available) * 100, total)
                         ELSE Zero
    IN  [mountpoint |-> mp_data["mountpoint"], device |-> mp_data["device"],
         total_bytes |-> total, available_bytes |-> available,
         usage_percent |-> Round2(usage_percent)]

\* A sort that puts the greatest mountpoint first.
RECURSIVE SortByMountpoint_Descending(_)
SortByMountpoint_Descending(S) ==
    IF S = {} THEN <<>>
    ELSE LET last == CHOOSE x \in S :
                         \A y \in S \ {x} : StrLess(y.mountpoint, x.mountpoint)
         IN  <<last>> \o SortByMountpoint_Descending(S \ {last})

\* disks.sort(key=lambda x: x["mountpoint"]) of entries with different mountpoints.
RECURSIVE SortByMountpoint(_)
SortByMountpoint(S) ==
    IF S = {} THEN <<>>
    ELSE LET first == CHOOSE x \in S :
                          \A y \in S \ {x} : StrLess(x.mountpoint, y.mountpoint)
         IN  <<first>> \o SortByMountpoint(S \ {first})

\* NodeExporter._get_disk_metrics on the samples of the two metrics.
get_disk_metrics(sizes, avails) ==
    LET mountpoints == AvailLoop(avails, SizeLoop(sizes)) IN
    SortByMountpoint({DiskEntry(mountpoints[m]) : m \in DOMAIN mountpoints})

\* The samples of the two metrics: labels and a whole number of bytes.
Sample(labels, value) == [labels |-> labels, value |-> value]
FsLabels(mountpoint, device, fstype) ==
    [mountpoint |-> mountpoint, device |-> device, fstype |-> fstype]
SizeSamples ==
    {Sample(FsLabels(<<"/">>, "sda1", "ext4"), 100),
     Sample(FsLabels(<<"/">>, "sdb1", "ext4"), 50),
     Sample(FsLabels(<<"/", "a">>, "sdc1", "ext4"), 100),
     Sample(FsLabels(<<"/", "a">>, "tmpfs", "tmpfs"), 100),
     Sample(FsLabels(<<"/", "s", "y", "s">>, "sysfs", "sysfs"), 100),
     Sample(FsLabels(<<"/", "b">>, "sdd1", "ext4"), 0),
     Sample([device |-> "sde1", fstype |-> "ext4"], 100)}
AvailSamples ==
    {Sample(FsLabels(<<"/">>, "sda1", "ext4"), 40),
     Sample(FsLabels(<<"/", "a">>, "sdc1", "ext4"), 30),
     Sample(FsLabels(<<"/", "b">>, "sdd1", "ext4"), 0)}

\* One call _get_disk_metrics(parsed).
GetDiskMetrics ==
    /\ disks = None
    /\ disks' = [list |-> get_disk_metrics(size_metrics, avail_metrics)]
    /\ UNCHANGED <<size_metrics, avail_metrics>>

DiskQuiet ==
    /\ size_metrics = <<>>
    /\ avail_metrics = <<>>
    /\ disks = None

\* ------------------------------------------------------------ transformer
\* The cpu, memory and disk dicts a caller can pass: complete ones as the node
\* exporter builds them, and ones that lack keys.
CpuInputs == {n.cpu : n \in NodeFacts}
             \cup {[usage_percent |-> 25], [cores |-> 4, temperature_celsius |-> 52]}
MemoryInputs == {n.memory : n \in NodeFacts} \cup {[total_bytes |-> 16]}
DiskInputs == {n.disks : n \in NodeFacts} \cup {<<[mountpoint |-> "/data"]>>}

\* The node_metrics arguments: None, and dicts with any of the three keys.
NodeInputs ==
    {None} \cup
    UNION {{[k \in K \cup {"tag"} |->
                IF k = "tag" THEN "node"
                ELSE IF k = "cpu" THEN c ELSE IF k = "memory" THEN m ELSE ds] :
            c \in CpuInputs, m \in MemoryInputs, ds \in DiskInputs} :
           K \in SUBSET {"cpu", "memory", "disks"}}

\* The gpu_metrics arguments: None, a dict with no key, one field, all fields.
GpuInputs == {None, [tag |-> "gpu"], [tag |-> "gpu", utilization_percent |-> 35]}
             \cup GpuFacts

\* One call transform_metrics(tm_node, tm_gpu).
TransformMetrics ==
    /\ tm_result = None
    /\ tm_result' = transform_metrics(tm_node, tm_gpu, 0)
    /\ UNCHANGED <<tm_node, tm_gpu>>

TmQuiet ==
    /\ tm_node = None
    /\ tm_gpu = None
    /\ tm_result = None

\* The pure-function specifications are at rest in the process specifications.
PureQuiet ==
    /\ TmQuiet
    /\ RtQuiet
    /\ DocQuiet
    /\ DiskQuiet

\* ------------------------------------------------------------ specifications
Init ==
    /\ LoopInit
    /\ pidFile = NoFile
    /\ PidQuiet
    /\ StopQuiet
    /\ RateQuiet
    /\ GpuQuiet
    /\ PureQuiet

\* The steps the collector process itself takes.
Step ==
    \/ LoopTop
    \/ Announce
    \/ ScrapeNode
    \/ ScrapeGpu
    \/ Transform
    \/ Serialize
    \/ SendLoop
    \/ SendPost
    \/ SendWait
    \/ Report
    \/ SleepCheck
    \/ SleepTick
    \/ Backoff
    \/ Stop

Next ==
    \/ LoopTop /\ UNCHANGED notLoopVars
    \/ Announce /\ UNCHANGED notLoopVars
    \/ ScrapeNode /\ UNCHANGED notLoopVars
    \/ ScrapeGpu /\ UNCHANGED notLoopVars
    \/ Transform /\ UNCHANGED notLoopVars
    \/ Serialize /\ UNCHANGED notLoopVars
    \/ SendLoop /\ UNCHANGED notLoopVars
    \/ SendPost /\ UNCHANGED notLoopVars
    \/ SendWait /\ UNCHANGED notLoopVars
    \/ Report /\ UNCHANGED notLoopVars
    \/ SleepCheck /\ UNCHANGED notLoopVars
    \/ SleepTick /\ UNCHANGED notLoopVars
    \/ Backoff /\ UNCHANGED notLoopVars
    \/ Stop /\ UNCHANGED notLoopVars
    \/ Signal /\ UNCHANGED notLoopVars

Spec == Init /\ [][Next]_vars

\* The interpreter keeps running the process: every blocking call has a timeout.
FairSpec == Spec /\ WF_vars(Step /\ UNCHANGED notLoopVars)

\* The run loop of SpecPid's invocations is the control state "running"; the
\* loop's own variables rest at one configuration.
InitPid ==
    /\ LoopInit
    /\ mode = "daemon" /\ node_enabled /\ gpu_enabled /\ max_retries = MaxRetries
    /\ pidFile \in InitialFiles
    /\ PidQuiet
    /\ StopQuiet
    /\ RateQuiet
    /\ GpuQuiet
    /\ PureQuiet

NextPid ==
    \E i \in Inst :
          \/ ChooseCommand(i) /\ UNCHANGED notPidVars
          \/ GpExists(i) /\ UNCHANGED notPidVars
          \/ GpRead(i) /\ UNCHANGED notPidVars
          \/ GpCheck(i) /\ UNCHANGED notPidVars
          \/ GpCleanup(i) /\ UNCHANGED notPidVars
          \/ CliChecked(i) /\ UNCHANGED notPidVars
          \/ RdChecked(i) /\ UNCHANGED notPidVars
          \/ Fork1(i) /\ UNCHANGED notDaemonizeVars
          \/ Decouple(i) /\ UNCHANGED notDaemonizeVars
          \/ Fork2(i) /\ UNCHANGED notDaemonizeVars
          \/ Redirect(i) /\ UNCHANGED notDaemonizeVars
          \/ WpMkstemp(i) /\ UNCHANGED notWritePidVars
          \/ WpWrite(i) /\ UNCHANGED notPidVars
          \/ WpClose(i) /\ UNCHANGED notWritePidVars
          \/ WpRename(i) /\ UNCHANGED notPidVars
          \/ SignalInst(i) /\ UNCHANGED notPidVars
          \/ LoopExit(i) /\ UNCHANGED notPidVars
          \/ FgCleanup(i) /\ UNCHANGED notPidVars

SpecPid == InitPid /\ [][NextPid]_vars

\* The commands of SpecPid one at a time, with write_pid's steps able to fail.
NextWrite ==
    \E i \in Inst :
          \/ Solo(i) /\ ChooseCommand(i) /\ UNCHANGED notPidVars
          \/ Solo(i) /\ GpExists(i) /\ UNCHANGED notPidVars
          \/ Solo(i) /\ GpRead(i) /\ UNCHANGED notPidVars
          \/ Solo(i) /\ GpCheck(i) /\ UNCHANGED notPidVars
          \/ Solo(i) /\ GpCleanup(i) /\ UNCHANGED notPidVars
          \/ Solo(i) /\ CliChecked(i) /\ UNCHANGED notPidVars
          \/ Solo(i) /\ RdChecked(i) /\ UNCHANGED notPidVars
          \/ Solo(i) /\ Fork1(i) /\ UNCHANGED notDaemonizeVars
          \/ Solo(i) /\ Decouple(i) /\ UNCHANGED notDaemonizeVars
          \/ Solo(i) /\ Fork2(i) /\ UNCHANGED notDaemonizeVars
          \/ Solo(i) /\ Redirect(i) /\ UNCHANGED notDaemonizeVars
          \/ Solo(i) /\ WpMkstemp(i) /\ UNCHANGED notWritePidVars
          \/ Solo(i) /\ WpWrite(i) /\ UNCHANGED notPidVars
          \/ Solo(i) /\ WpWriteFails(i) /\ UNCHANGED notWritePidVars
          \/ Solo(i) /\ WpClose(i) /\ UNCHANGED notWritePidVars
          \/ Solo(i) /\ WpCloseFails(i) /\ UNCHANGED notWritePidVars
          \/ Solo(i) /\ WpRename(i) /\ UNCHANGED notPidVars
          \/ Solo(i) /\ WpRenameFails(i) /\ UNCHANGED notWritePidVars
          \/ Solo(i) /\ WpExcept(i) /\ UNCHANGED notWritePidVars
          \/ Solo(i) /\ SignalInst(i) /\ UNCHANGED notPidVars
          \/ Solo(i) /\ LoopExit(i) /\ UNCHANGED notPidVars
          \/ Solo(i) /\ FgCleanup(i) /\ UNCHANGED notPidVars

SpecWrite == InitPid /\ [][NextWrite]_vars

\* What the commands of SpecSeq can find: no PID file; the file of a running
\* daemon, as write_pid leaves it or as plain digits; the file of a daemon that
\* is gone; text that is no integer.
SeqInitial ==
    { <<NoFile, {}>>,
      <<File(Format(Daemon0)), {Daemon0}>>,
      <<File(str(Daemon0)), {Daemon0}>>,
      <<File(Format(Daemon0)), {}>>,
      <<File(<<"a", "b", "c">>), {}>> }

\* The commands run one after the other; a started daemon keeps running in
\* the background. The run loop's own variables rest at one configuration.
InitSeq ==
    /\ LoopInit
    /\ mode = "daemon" /\ node_enabled /\ gpu_enabled /\ max_retries = MaxRetries
    /\ \E fa \in SeqInitial : pidFile = fa[1] /\ alive = fa[2]
    /\ tmp = [i \in Inst |-> NoFile]
    /\ ipc = [i \in Inst |-> "idle"]
    /\ cmd = [i \in Inst |-> "none"]
    /\ canWrite = [i \in Inst |-> FALSE]
    /\ stage = [i \in Inst |-> 0]
    /\ ret = [i \in Inst |-> "none"]
    /\ text = [i \in Inst |-> NoFile]
    /\ gp = [i \in Inst |-> 0]
    /\ ikill = [i \in Inst |-> FALSE]
    /\ concRead = {}
    /\ dlog = [i \in Inst |-> <<>>]
    /\ fd = [i \in Inst |-> "none"]
    /\ wperr = [i \in Inst |-> NoError]
    /\ raised = [i \in Inst |-> NoError]
    /\ UpQuiet
    /\ StopQuiet
    /\ RateQuiet
    /\ GpuQuiet
    /\ PureQuiet

NextSeq ==
    \/ \E i \in Inst :
          \/ Solo(i) /\ ChooseSeq(i) /\ UNCHANGED notSeqVars
          \/ Solo(i) /\ GpExists(i) /\ seen' = [seen EXCEPT ![i] = NoFile]
                /\ UNCHANGED <<notSeqVars, stopHist>>
          \/ Solo(i) /\ GpRead(i) /\ seen' = [seen EXCEPT ![i] = pidFile]
                /\ UNCHANGED <<notSeqVars, stopHist>>
          \/ Solo(i) /\ GpCheck(i) /\ UNCHANGED notPidVars
          \/ Solo(i) /\ GpCleanup(i) /\ UNCHANGED notPidVars
          \/ Solo(i) /\ CliChecked(i) /\ UNCHANGED notPidVars
          \/ Solo(i) /\ RdChecked(i) /\ UNCHANGED notPidVars
          \/ Solo(i) /\ Fork1(i) /\ UNCHANGED notDaemonizeVars
          \/ Solo(i) /\ Decouple(i) /\ UNCHANGED notDaemonizeVars
          \/ Solo(i) /\ Fork2(i) /\ UNCHANGED notDaemonizeVars
          \/ Solo(i) /\ Redirect(i) /\ UNCHANGED notDaemonizeVars
          \/ Solo(i) /\ WpMkstemp(i) /\ UNCHANGED notWritePidVars
          \/ Solo(i) /\ WpWrite(i) /\ UNCHANGED notPidVars
          \/ Solo(i) /\ WpClose(i) /\ UNCHANGED notWritePidVars
          \/ Solo(i) /\ WpRename(i) /\ UNCHANGED notPidVars
          \/ Solo(i) /\ StopChecked(i) /\ UNCHANGED notSeqVars
          \/ Solo(i) /\ StopPid(i) /\ UNCHANGED notSeqVars
          \/ Solo(i) /\ StopEntered(i) /\ UNCHANGED notSeqVars
          \/ Solo(i) /\ StTerm(i) /\ UNCHANGED notSeqVars
          \/ Solo(i) /\ StProbe(i) /\ UNCHANGED notSeqVars
          \/ Solo(i) /\ StKill(i) /\ UNCHANGED notSeqVars
          \/ Solo(i) /\ StKillWait(i) /\ UNCHANGED notSeqVars
    \/ TargetDies /\ UNCHANGED notSeqVars

SpecSeq == InitSeq /\ [][NextSeq]_vars

\* One NodeExporter polled again and again; the rest of the program is at rest.
InitRate ==
    /\ LoopInit
    /\ mode = "daemon" /\ node_enabled /\ gpu_enabled /\ max_retries = MaxRetries
    /\ pidFile = NoFile
    /\ PidQuiet
    /\ StopQuiet
    /\ RateQuiet
    /\ GpuQuiet
    /\ PureQuiet

NextRate ==
    \/ CalculateCpuUsage /\ UNCHANGED notRateVars
    \/ ScrapeFails /\ UNCHANGED notRateVars

SpecRate == InitRate /\ [][NextRate]_vars

\* One NvidiaExporter, enabled or not, with or without a configured path.
InitGpu ==
    /\ LoopInit
    /\ mode = "daemon" /\ node_enabled /\ gpu_enabled /\ max_retries = MaxRetries
    /\ pidFile = NoFile
    /\ PidQuiet
    /\ StopQuiet
    /\ RateQuiet
    /\ nv_enabled \in BOOLEAN
    /\ nv_path \in {"None", "/opt/nvidia-smi"}
    /\ nv_available = "None"
    /\ nv_probes = 0
    /\ nv_calls = 0
    /\ nv_ret = "none"
    /\ nv_world = <<FALSE, "ok">>
    /\ PureQuiet

NextGpu ==
    \/ IsAvailable /\ UNCHANGED notGpuVars
    \/ GetMetrics /\ UNCHANGED notGpuVars

SpecGpu == InitGpu /\ [][NextGpu]_vars

\* The process specifications at rest, for the pure-function specifications.
ProcQuiet ==
    /\ LoopInit
    /\ mode = "daemon" /\ node_enabled /\ gpu_enabled /\ max_retries = MaxRetries
    /\ pidFile = NoFile
    /\ PidQuiet
    /\ StopQuiet
    /\ RateQuiet
    /\ GpuQuiet

\* -------------------------------------------------------------- SpecUptime
InitUptime ==
    /\ ProcQuiet
    /\ PureQuiet

NextUptime ==
    \/ \E i \in Inst : DaemonStarts(i) /\ UNCHANGED notUptimeVars
    \/ \E p \in alive : DaemonDies(p) /\ UNCHANGED notUptimeVars
    \/ Tick /\ UNCHANGED notUptimeVars
    \/ MgrGetPid /\ UNCHANGED notUptimeVars
    \/ UpIsRunning /\ UNCHANGED notUptimeVars
    \/ UpCompute /\ UNCHANGED notUptimeVars

SpecUptime == InitUptime /\ [][NextUptime]_vars

\* transform_metrics applied once to every pair of arguments.
InitTransform ==
    /\ ProcQuiet
    /\ RtQuiet
    /\ DocQuiet
    /\ DiskQuiet
    /\ tm_node \in NodeInputs
    /\ tm_gpu \in GpuInputs
    /\ tm_result = None

NextTransform == TransformMetrics /\ UNCHANGED notTmVars

SpecTransform == InitTransform /\ [][NextTransform]_vars

\* Every modelled sample is rendered, then parsed.
InitRoundTrip ==
    /\ ProcQuiet
    /\ TmQuiet
    /\ DocQuiet
    /\ DiskQuiet
    /\ rt_sample \in RtSamples
    /\ rt_line = <<>>
    /\ rt_result = <<>>
    /\ rt_step = "sample"

NextRoundTrip ==
    \/ RtRender /\ UNCHANGED notRtVars
    \/ RtParse /\ UNCHANGED notRtVars

SpecRoundTrip == InitRoundTrip /\ [][NextRoundTrip]_vars

\* Every modelled document is parsed.
InitDoc ==
    /\ ProcQuiet
    /\ TmQuiet
    /\ RtQuiet
    /\ DiskQuiet
    /\ doc_samples \in Lists(DocSamples, MaxLines)
    /\ doc_bad \in MalformedLines
    /\ doc_at \in 0..Len(doc_samples)
    /\ doc_text = Document(doc_samples, doc_bad, doc_at)
    /\ doc_result = None

NextDoc == DocParse /\ UNCHANGED notDocVars

SpecDoc == InitDoc /\ [][NextDoc]_vars

\* _get_disk_metrics applied once to every pair of sample lists.
InitDisk ==
    /\ ProcQuiet
    /\ TmQuiet
    /\ RtQuiet
    /\ DocQuiet
    /\ size_metrics \in Lists(SizeSamples, MaxMounts)
    /\ avail_metrics \in Lists(AvailSamples, MaxMounts)
    /\ disks = None

NextDisk == GetDiskMetrics /\ UNCHANGED notDiskVars

SpecDisk == InitDisk /\ [][NextDisk]_vars

\* ------------------------------------------------------------ claims, run loop
\* The POST events of a send log, in order.
Posts(log) == SelectSeq(log, LAMBDA e : e.ev = "post")
Waits(log) == SelectSeq(log, LAMBDA e : e.ev = "wait")
\* A POST outcome that is a 2xx response.
Is2xx(e) == e.ev = "post" /\ e.kind = "response" /\ e.status \in 200..299
\* The send() call in flight has returned to collect_and_send.
SendReturned == pc = "after_send"

\* C1: with max_retries = N >= 1 and every POST attempt failing, one send() call
\* issues exactly N POSTs, sleeps retry_delay exactly between consecutive
\* attempts (N-1 waits, none after the last attempt) and returns false.
C1_AllFailingAttempts ==
    (SendReturned /\ max_retries >= 1 /\ \A i \in 1..Len(sendLog) : ~Is2xx(sendLog[i]))
        => /\ result = "false"
           /\ Len(Posts(sendLog)) = max_retries
           /\ Len(Waits(sendLog)) = max_retries - 1
           /\ Len(sendLog) = 2 * max_retries - 1
           /\ \A i \in 1..Len(sendLog) :
                 sendLog[i].ev = (IF i % 2 = 1 THEN "post" ELSE "wait")
           /\ postCount[iter] = max_retries

C1_Witness ==
    /\ SendReturned
    /\ max_retries = MaxRetries
    /\ result = "false"
    /\ Len(Posts(sendLog)) = MaxRetries
    /\ Len(Waits(sendLog)) = MaxRetries - 1
    /\ \E i \in 1..Len(sendLog) : sendLog[i].kind = "RequestError"
    /\ \E i \in 1..Len(sendLog) : sendLog[i].kind = "response"

\* C2: send() returns true iff some attempt was answered 2xx; that attempt is the
\* last one issued; every other response or error is a failed attempt; false is
\* returned only after all max_retries attempts were issued and failed.
C2_SendResult ==
    /\ \A i \in 1..Len(sendLog) : Is2xx(sendLog[i]) => i = Len(sendLog)
    /\ SendReturned =>
          /\ result \in {"true", "false"}
          /\ (result = "true") <=> (\E i \in 1..Len(sendLog) : Is2xx(sendLog[i]))
          /\ result = "false" =>
                /\ Len(Posts(sendLog)) = max_retries
                /\ \A i \in 1..Len(sendLog) : ~Is2xx(sendLog[i])
    /\ ~SendReturned => result = "none"

C2_Witness ==
    /\ SendReturned
    /\ result = "true"
    /\ Len(Posts(sendLog)) = 2
    /\ sendLog[1].kind = "response" /\ sendLog[1].status = 301
    /\ Is2xx(sendLog[Len(sendLog)])

\* C3: in the inter-iteration sleep, once kill_now is set at most one more 100 ms
\* increment is slept before the loop leaves the sleep.
C3_SleepHonoursFlag ==
    /\ sleepsAfterKill <= 1
    /\ (pc = "sleeping" /\ kill_now) => sleepsAfterKill = 0

C3_Witness ==
    /\ killedAt = "sleeping"
    /\ sleepsAfterKill = 1
    /\ pc = "loop_top"
    /\ sleep_i + 1 < Interval * IncrementsPerSecond

\* C4: once kill_now is set the iteration in flight takes its ordinary steps to
\* the end (all send attempts included), no new iteration starts, and the run
\* loop eventually exits.
C4_CooperativeCancellation ==
    /\ [][(kill_now' /\ pc \in IterationPcs /\ pc' # pc)
            => pc' \in IterationPcs \cup {"sleep_check", "backoff"}]_vars
    /\ [](kill_now /\ SendReturned /\ result = "false"
            => Len(Posts(sendLog)) = max_retries)
    /\ [][kill_now => iter' = iter]_vars
    /\ (kill_now /\ pc \in IterationPcs) ~> (pc \in {"sleep_check", "backoff"})
    /\ kill_now ~> (pc = "exited")

C4_Witness ==
    /\ killedAt = "iteration"
    /\ pc = "exited"
    /\ sleepsAfterKill = 0
    /\ max_retries = MaxRetries
    /\ postCount[iter] = MaxRetries

\* C5: an exception escaping an iteration does not end the loop: the handler
\* sleeps the 1-second backoff and, unless kill_now is set, another iteration
\* starts; the loop ends only when kill_now is set.
C5_LoopSurvivesException ==
    /\ [](pc \in {"stopping", "exited"} => kill_now)
    /\ [](backoffs <= iter)
    /\ [][raisedAt' # raisedAt => pc' = "backoff" /\ raisedAt' = iter]_vars
    /\ [][(pc = "backoff" /\ pc' # pc)
            => pc' = "loop_top" /\ backoffs' = backoffs + 1]_vars
    /\ [][(pc = "loop_top" /\ pc' # pc /\ ~kill_now)
            => pc' \in {"announce", "node"} /\ iter' = iter + 1]_vars

C5_Witness ==
    /\ raisedAt = 1
    /\ backoffs = 1
    /\ iter = 2
    /\ pc = "send_post"
    /\ ~kill_now

\* The steps collect_and_send takes under the configuration, in order.
ExpectedOrder ==
    SelectSeq(<<"node", "gpu", "transform", "send", "sent">>,
              LAMBDA x : /\ (x = "node" => node_enabled)
                         /\ (x = "gpu" => gpu_enabled))
IsPrefix(a, b) == Len(a) <= Len(b) /\ \A i \in 1..Len(a) : a[i] = b[i]

\* C6: within an iteration the steps are scrape (HTTP exporter, then GPU
\* exporter), transform, send, in that order; and an iteration starts only when
\* the previous one's send has returned (or the iteration was abandoned by an
\* exception), so iterations never overlap.
C6_SequentialIterations ==
    /\ [](IsPrefix(iterLog, ExpectedOrder))
    /\ [](pc = "after_send" => iterLog = ExpectedOrder)
    /\ [][iter' # iter => ~iterOpen /\ iter' = iter + 1 /\ iterLog = <<>>]_vars
    /\ [](pc \in {"send_loop", "send_post", "send_wait"} => iterOpen)

C6_Witness ==
    /\ iter = 2
    /\ node_enabled /\ gpu_enabled
    /\ pc = "after_send"
    /\ iterLog = <<"node", "gpu", "transform", "send", "sent">>
    /\ postCount[1] >= 1

\* C7: a snapshot whose send() failed is dropped: every POST carries the snapshot
\* collected in the iteration in flight, no earlier snapshot is posted again, and
\* no snapshot is posted more than max_retries times.
C7_FailedSnapshotDropped ==
    /\ [](\A k \in DOMAIN postCount : postCount[k] <= max_retries)
    /\ [](pc \in {"send_loop", "send_post", "send_wait"}
            => metrics_dict.timestamp = iter)
    /\ [][\A k \in DOMAIN postCount :
             postCount'[k] # postCount[k]
                 => /\ k = iter
                    /\ metrics_dict.timestamp = k
                    /\ postCount'[k] = postCount[k] + 1]_vars

C7_Witness ==
    /\ iter = 2
    /\ max_retries = MaxRetries
    /\ postCount[1] = MaxRetries
    /\ postCount[2] = 1
    /\ raisedAt = 0
    /\ pc = "after_send"
    /\ result = "true"

\* C8: in collect_once a failing exporter (no result, or a raise) does not keep
\* the other enabled exporter from being polled, and the snapshot is produced
\* with defaults for the failed source and the facts of the one that succeeded.
C8_IndependentExporters ==
    /\ pc \in {"transform", "serialize"} =>
          /\ node_enabled => "node" \in polled
          /\ gpu_enabled => "gpu" \in polled
    /\ pc = "serialize" =>
          /\ metrics # None
          /\ IF node_enabled /\ "node" \notin failed
             THEN /\ node_metrics \in NodeFacts
                  /\ metrics.cpu = node_metrics.cpu
                  /\ metrics.memory = node_metrics.memory
                  /\ metrics.disks = node_metrics.disks
             ELSE /\ metrics.cpu = CpuMetrics
                  /\ metrics.memory = MemoryMetrics
                  /\ metrics.disks = <<>>
          /\ IF gpu_enabled /\ "gpu" \notin failed
             THEN /\ gpu_metrics \in GpuFacts
                  /\ \A f \in DOMAIN metrics.gpu : metrics.gpu[f] = gpu_metrics[f]
                  /\ DOMAIN metrics.gpu = DOMAIN gpu_metrics \ {"tag"}
             ELSE metrics.gpu = None

C8_Witness ==
    /\ pc = "serialize"
    /\ polled = {"node", "gpu"}
    /\ failed = {"node"}
    /\ metrics.cpu = CpuMetrics
    /\ metrics.gpu # None
    /\ metrics.gpu.utilization_percent = 35

\* ------------------------------------------------------------ claims, PID file
\* The invocations whose collection loop is running.
Running == {i \in Inst : ipc[i] = "running"}

\* C9: the PID file gives mutual exclusion: at most one collector instance runs
\* its collection loop at any time, whether the starts are concurrent or a
\* foreground start meets a running daemon. Stated for the instances that were
\* allowed to write the PID file, the only ones the file could hold back.
C9_MutualExclusion == Cardinality({i \in Running : canWrite[i]}) <= 1

\* The texts write_pid can have put in place, each a complete PID.
CompletePidTexts == {Format(Pid(i, s)) : i \in Inst, s \in 0..2}

\* C10: whatever read_text() returned to a reader of the PID file is the
\* complete content the file had before the invocations began or a complete
\* PID written by write_pid; it is never empty and never part of a PID.
C10_AtomicWrite ==
    /\ \A i \in Inst :
          text[i].exists =>
              \/ text[i] \in InitialFiles
              \/ /\ text[i].text \in CompletePidTexts
                 /\ IsInt(strip(text[i].text))
                 /\ \E j \in Inst : int(strip(text[i].text)) = CurPid(j)
    /\ pidFile.exists =>
          pidFile \in InitialFiles \/ pidFile.text \in CompletePidTexts

\* A reader has just read a complete PID while another invocation was between
\* creating its temporary file and renaming it.
C10_Witness ==
    \E i \in concRead : \E j \in Inst \ {i} :
        /\ ipc[i] = "gp_check"
        /\ text[i].text \in CompletePidTexts
        /\ ipc[j] \in {"wp_write", "wp_close", "wp_rename"}

\* ------------------------------------------------------------ claims, stop()
\* C11: stop() sends SIGTERM first, then probes at most MaxProbes times, and
\* sends SIGKILL only when every one of the MaxProbes probes found the process
\* present; SIGKILL never comes without a SIGTERM before it, nor after an
\* os.kill call has found the process gone (or was refused).
C11_StopEscalation ==
    \A i \in Inst :
        /\ sig[i] \in {<<>>, <<"SIGTERM">>, <<"SIGTERM", "SIGKILL">>}
        /\ probes[i] <= MaxProbes
        /\ probes[i] > 0 => Len(sig[i]) >= 1
        /\ Len(sig[i]) = 2 => /\ probes[i] = MaxProbes
                              /\ ~goneSeen[i]
                              /\ ~permErr[i]

\* A stop() has sent both signals, the second after the last probe.
C11_Witness ==
    \E i \in Inst :
        /\ sig[i] = <<"SIGTERM", "SIGKILL">>
        /\ probes[i] = MaxProbes
        /\ stopRet[i] = "true"

\* C12: whenever stop() has deleted the PID file, the process the file named
\* no longer exists, also when SIGKILL was sent.
C12_CleanupOnlyWhenGone ==
    \A i \in Inst : delPid[i] # 0 => delPid[i] \notin alive

\* stop() was entered by invocation i and has returned.
StopReturned(i) == ret[i] = "stop_entered" /\ ipc[i] = "done"

\* C13: stop() returns False exactly when an os.kill call was refused with a
\* PermissionError; it returns True when get_pid() found nothing running, when
\* an os.kill call found the process gone, and after SIGKILL was sent.
C13_StopResult ==
    \A i \in Inst :
        StopReturned(i) =>
            /\ stopRet[i] \in {"true", "false"}
            /\ stopRet[i] = "false" <=> permErr[i]
            /\ (gp[i] = 0 \/ goneSeen[i] \/ Len(sig[i]) = 2) => stopRet[i] = "true"

\* One stop() was refused, another has killed the process.
C13_Witness ==
    \E i \in Inst, j \in Inst :
        /\ StopReturned(i) /\ stopRet[i] = "false"
        /\ StopReturned(j) /\ stopRet[j] = "true" /\ Len(sig[j]) = 2

\* ------------------------------------------------------------ claims, get_pid / write_pid
\* The text names a process that exists.
NamesProcess(t) == IsInt(strip(t)) /\ int(strip(t)) \in alive

\* get_pid() of invocation i returns in this step, having read the PID file.
GetPidReturnsAfterRead(i) ==
    /\ ipc[i] \in {"gp_check", "gp_cleanup"}
    /\ ipc'[i] \notin GetPidPcs

\* C14 as stated: get_pid() on a PID file that holds no integer, or the PID of
\* no existing process, returns None and the PID file is gone afterwards; on a
\* file naming an existing process it returns that PID and leaves the file.
C14_StaleFileRemoved ==
    [][\A i \in Inst :
          GetPidReturnsAfterRead(i) =>
              IF NamesProcess(text[i].text)
              THEN gp'[i] = int(strip(text[i].text)) /\ pidFile' = pidFile
              ELSE gp'[i] = 0 /\ ~pidFile'.exists]_vars

\* C14 amended: the stale file is gone afterwards when the caller may remove
\* it; when the removal is refused the file stays as it was.
C14_StaleFileRemovedIfPermitted ==
    [][\A i \in Inst :
          GetPidReturnsAfterRead(i) =>
              IF NamesProcess(text[i].text)
              THEN gp'[i] = int(strip(text[i].text)) /\ pidFile' = pidFile
              ELSE /\ gp'[i] = 0
                   /\ IF canWrite[i] THEN ~pidFile'.exists
                                     ELSE pidFile' = pidFile]_vars

\* get_pid() has found text that is no integer, removed the file and returned
\* None.
C14_Witness ==
    \E i \in Inst :
        /\ seen[i] = File(<<"a", "b", "c">>)
        /\ ipc[i] \notin GetPidPcs
        /\ gp[i] = 0
        /\ canWrite[i]
        /\ ~pidFile.exists

\* The daemon of invocation i gets the result of the get_pid() it calls right
\* after write_pid() (run_daemon, in the process that wrote the file).
GetPidAfterWritePid(i) ==
    /\ cmd[i] = "daemon"
    /\ ret[i] = "running"
    /\ ipc[i] \in GetPidPcs
    /\ ipc'[i] = "running"

\* C15 as stated: get_pid() right after a successful write_pid() returns the
\* caller's own PID, and the file's content is exactly that PID's digits.
C15_WriteThenGet ==
    [][\A i \in Inst :
          GetPidAfterWritePid(i) =>
              /\ gp'[i] = CurPid(i)
              /\ pidFile' = File(str(CurPid(i)))]_vars

\* C15 amended: the content is the PID's digits followed by one newline.
C15_WriteThenGetNewline ==
    [][\A i \in Inst :
          GetPidAfterWritePid(i) =>
              /\ gp'[i] = CurPid(i)
              /\ pidFile' = File(str(CurPid(i)) \o <<"\n">>)
              /\ strip(pidFile'.text) = str(CurPid(i))]_vars

\* A daemon has written its PID file and read its own PID back from it.
C15_Witness ==
    \E i \in Inst :
        /\ cmd[i] = "daemon"
        /\ ipc[i] = "running"
        /\ stage[i] = 2
        /\ gp[i] = CurPid(i)
        /\ seen[i] = File(Format(CurPid(i)))

\* ------------------------------------------------------------ claims, lifecycle failures
\* write_pid() of the start command of invocation i has raised PermissionError.
WritePidRefused(i) ==
    /\ ~canWrite[i]
    /\ \/ cmd[i] = "foreground" /\ ipc[i] \in {"running", "fg_cleanup", "done"}
       \/ cmd[i] = "daemon" /\ stage[i] = 2 /\ ipc[i] = "crashed"

\* The start went on into the collection loop.
StartContinued(i) ==
    cmd[i] = "foreground" /\ ipc[i] \in {"running", "fg_cleanup", "done"}

\* The process the caller started has ended with status 0: daemonize's first
\* parent leaves through sys.exit(0).
CallerSawSuccess(i) == cmd[i] = "daemon" /\ stage[i] >= 1

\* C16: a permission failure when writing the PID file is reported to the
\* caller that started the collector as a failure, in foreground and in daemon
\* mode: the start neither goes on into the loop nor ends as a success.
C16_PermissionFailureReported ==
    \A i \in Inst :
        WritePidRefused(i) => ~StartContinued(i) /\ ~CallerSawSuccess(i)

\* C17: a daemon that has passed both forks is ended by nothing but a shutdown
\* signal: no later failure, a failing write of the PID file included,
\* terminates it.
C17_OnlyForkFailureTerminates ==
    \A i \in Inst :
        (cmd[i] = "daemon" /\ stage[i] = 2 /\ ipc[i] \in {"done", "crashed"})
            => ikill[i]

\* ------------------------------------------------------------ claims, rate engine
\* The CPUs of a poll and its per-CPU sums of all modes and of the idle mode.
CpuOf(x) == IF x.cpu = NoLabel THEN "0" ELSE x.cpu
CpusIn(p) == {CpuOf(p[k]) : k \in 1..Len(p)}
SecondsOf(p, c, modes) ==
    LET K == {k \in 1..Len(p) : CpuOf(p[k]) = c /\ p[k].mode \in modes} IN
    SetSum([k \in K |-> p[k].value], K)
PollTotals(p) == [c \in CpusIn(p) |-> SecondsOf(p, c, {"idle", "user"})]
PollIdles(p) == [c \in CpusIn(p) |-> SecondsOf(p, c, {"idle"})]

\* C18 as stated: the first computation (rate state absent) returns 0 whatever
\* was scraped, and after it the state holds that poll's per-CPU sums.
C18_FirstPollSeeds ==
    [][(prev_cpu_total = None /\ polls' = polls + 1) =>
          /\ cpu_usage' = Zero
          /\ prev_cpu_total' = PollTotals(parsed')
          /\ prev_cpu_idle' = PollIdles(parsed')]_vars

\* C18 amended: the state is seeded when the poll has at least one CPU sample;
\* a poll without any returns 0 as well and leaves the state absent.
C18_FirstPollSeedsIfSamples ==
    [][(prev_cpu_total = None /\ polls' = polls + 1) =>
          /\ cpu_usage' = Zero
          /\ IF parsed' # <<>>
             THEN /\ prev_cpu_total' = PollTotals(parsed')
                  /\ prev_cpu_idle' = PollIdles(parsed')
             ELSE /\ prev_cpu_total' = None
                  /\ prev_cpu_idle' = None]_vars

\* The first poll, with samples of two CPUs, has returned 0 and seeded the state.
C18_Witness ==
    /\ polls = 1
    /\ parsed # <<>>
    /\ CpusIn(parsed) = {"0", "1"}
    /\ cpu_usage = Zero
    /\ prev_cpu_total = PollTotals(parsed)
    /\ prev_cpu_idle = PollIdles(parsed)

\* The usage the claim's formula gives for the poll cur after the poll before:
\* the differences are added up over the CPUs both polls have.
ClaimedUsage(before, cur) ==
    LET both == CpusIn(before) \cap CpusIn(cur)
        dTotal == SetSum([c \in both |-> PollTotals(cur)[c] - PollTotals(before)[c]], both)
        dIdle == SetSum([c \in both |-> PollIdles(cur)[c] - PollIdles(before)[c]], both)
    IN  IF dTotal <= 0 THEN Zero
        ELSE IF dIdle >= dTotal THEN Zero
        ELSE IF dIdle <= 0 THEN Hundred
        ELSE Frac((dTotal - dIdle) * 100, dTotal)

InRange(x) == ~Less(x, Zero) /\ ~Less(Hundred, x)

\* C19 as stated: once the state is seeded, every poll's usage is the clamped
\* percentage of the differences between this poll and the previous poll, 0
\* when dTotal <= 0, and so within [0, 100].
C19_UsageFromPreviousPoll ==
    [][(prev_cpu_total # None /\ polls' = polls + 1) =>
          /\ cpu_usage' = ClaimedUsage(parsed, parsed')
          /\ InRange(cpu_usage')]_vars

\* C19 amended: the differences are taken against the latest earlier poll that
\* had CPU samples.
C19_UsageFromPreviousSamples ==
    [][(prev_cpu_total # None /\ polls' = polls + 1) =>
          /\ cpu_usage' = ClaimedUsage(lastFull, parsed')
          /\ InRange(cpu_usage')]_vars

\* A poll after the seeding one has returned a usage strictly between 0 and 100.
C19_Witness ==
    /\ polls >= 2
    /\ prev_cpu_total # None
    /\ Less(Zero, cpu_usage)
    /\ Less(cpu_usage, Hundred)

\* ------------------------------------------------------------ claims, nvidia-smi exporter
\* C20: the availability probe runs at most once per exporter: once
\* is_available() has a result, later is_available() and get_metrics() calls
\* use it without running the probe, and it never changes.
C20_ProbeOnce ==
    /\ [](nv_probes <= 1)
    /\ [][nv_available # "None" =>
             /\ nv_available' = nv_available
             /\ nv_probes' = nv_probes
             /\ nv_ret' \in {"True", "False"} => nv_ret' = nv_available
             /\ nv_available = "False" => nv_ret' \in {"False", "None"}]_vars

\* The probe failed once; a later call, made when nvidia-smi is on the PATH and
\* works, still got the remembered answer.
C20_Witness ==
    /\ nv_available = "False"
    /\ nv_probes = 1
    /\ nv_calls >= 2
    /\ nv_world = <<TRUE, "ok">>
    /\ nv_ret \in {"False", "None"}

\* ------------------------------------------------------------ claims, transformer
\* Every field of the record is the number 0.
ZeroValued(r) == \A f \in DOMAIN r : r[f] = 0

\* The call transform_metrics(None, None) has returned.
TransformedNothing == tm_node = None /\ tm_gpu = None /\ tm_result # None

\* C21 as stated: transform_metrics(absent, absent) yields a snapshot whose CPU
\* and memory fields are all zero-valued, whose disk list is empty and whose GPU
\* block is absent.
C21_AbsentInputsAllZero ==
    TransformedNothing =>
        /\ ZeroValued(tm_result.cpu)
        /\ ZeroValued(tm_result.memory)
        /\ tm_result.disks = <<>>
        /\ tm_result.gpu = None

\* C21 amended: transform_metrics(absent, absent) yields CPU usage and the three
\* load averages 0, cores 1 and no CPU temperature, all memory fields 0, an empty
\* disk list and an absent GPU block, which the serialised snapshot leaves out.
C21_AbsentInputsDefaults ==
    TransformedNothing =>
        /\ DOMAIN tm_result.cpu =
              {"usage_percent", "load_1m", "load_5m", "load_15m", "cores"}
        /\ \A f \in {"usage_percent", "load_1m", "load_5m", "load_15m"} :
              tm_result.cpu[f] = 0
        /\ tm_result.cpu.cores = 1
        /\ ZeroValued(tm_result.memory)
        /\ DOMAIN tm_result.memory = {"total_bytes", "available_bytes", "usage_percent"}
        /\ tm_result.disks = <<>>
        /\ tm_result.gpu = None
        /\ "gpu" \notin DOMAIN metrics_to_dict(tm_result)

C21_Witness ==
    /\ TransformedNothing
    /\ tm_result.cpu.cores = 1
    /\ tm_result.gpu = None

\* ------------------------------------------------------------ claims, parser
\* C22: for every sample with a valid name, a value and labels whose values may
\* contain backslash, double-quote and newline characters, parsing the line
\* rendered from it returns exactly the sample's name, value and labels.
C22_RoundTrip ==
    rt_step = "parsed" => rt_result = <<rt_sample>>

\* C23: a document of N well-formed sample lines with one malformed line at any
\* position parses to exactly those N samples, in document order; comment and
\* blank lines add no sample.
C23_MalformedLineSkipped ==
    doc_result # None => doc_result.metrics = doc_samples

\* ------------------------------------------------------------ claims, disks
MountOf(x) == Get(x.labels, "mountpoint", <<>>)
\* A sample whose filesystem type is not a pseudo type and whose mountpoint is
\* not under a reserved prefix.
Eligible(x) ==
    /\ Get(x.labels, "fstype", "") \notin PseudoTypes
    /\ ~startswith(MountOf(x), ReservedPrefixes)
DiskPlaces == 1..Len(disks.list)

Kept(x) == Eligible(x) /\ MountOf(x) # <<>> /\ x.value > 0
\* The place of the last sample of the list that is for mountpoint m and passes
\* the test, 0 if there is none.
LastPlace(list, m, test(_)) ==
    LET places == {k \in 1..Len(list) : MountOf(list[k]) = m /\ test(list[k])} IN
    IF places = {} THEN 0 ELSE CHOOSE k \in places : \A l \in places : l <= k
AnySample(x) == TRUE

C25_ReplacedEveryPoll ==
    [][polls' = polls + 1 =>
          /\ prev_cpu_total' = PollTotals(parsed')
          /\ prev_cpu_idle' = PollIdles(parsed')
          /\ prev_cpu_total # None => cpu_usage' = ClaimedUsage(parsed, parsed')]_vars

\* C25 amended: a poll whose document has CPU samples replaces both mappings
\* by that poll's sums, whatever CPUs they held; a poll whose scrape fails or
\* whose document has no CPU sample leaves both as they were; so the state is
\* absent until a poll had samples and holds the sums of the latest such poll
\* afterwards, and the usage is computed against that poll.
C25_ReplacedByPollsWithSamples ==
    /\ [](IF lastFull = <<>>
          THEN prev_cpu_total = None /\ prev_cpu_idle = None
          ELSE prev_cpu_total = PollTotals(lastFull) /\ prev_cpu_idle = PollIdles(lastFull))
    /\ [][/\ (polls' = polls + 1 /\ parsed' # <<>>) =>
               /\ prev_cpu_total' = PollTotals(parsed')
               /\ prev_cpu_idle' = PollIdles(parsed')
               /\ lastFull' = parsed'
          /\ (polls' = polls + 1 /\ parsed' = <<>>) =>
               UNCHANGED <<prev_cpu_total, prev_cpu_idle, lastFull>>
          /\ polls' = polls =>
               UNCHANGED <<prev_cpu_total, prev_cpu_idle, lastFull>>
          /\ (polls' = polls + 1 /\ prev_cpu_total # None) =>
               cpu_usage' = ClaimedUsage(lastFull, parsed')]_vars

\* The state seeded by a poll with CPU 0 only has been replaced by the sums of
\* a poll with CPU 1 only, and the scrape after that failed.
C25_Witness ==
    /\ polls = 2
    /\ scrape = "failed"
    /\ CpusIn(parsed) = {"1"}
    /\ cpu_usage = Zero
    /\ prev_cpu_total = PollTotals(parsed)
    /\ DOMAIN prev_cpu_idle = {"1"}

\* The steps of daemonize() between its two forks.
Decoupling == {"setsid", "chdir", "umask"}

\* The steps logged are an initial part of: first fork, the three decoupling
\* steps in some order, second fork, redirection of the standard streams.
InDaemonizeOrder(log) ==
    /\ Len(log) <= 6
    /\ \A k \in DOMAIN log :
          /\ k = 1 => log[k] = "fork1"
          /\ k \in 2..4 => log[k] \in Decoupling
          /\ k = 5 => log[k] = "fork2"
          /\ k = 6 => log[k] = "redirect"
    /\ \A k, l \in DOMAIN log : log[k] = log[l] => k = l

\* C26: daemonize() takes its steps in the stated order -- first fork, then
\* session leadership, working directory and permission mask, then the second
\* fork, then the redirection of the standard streams -- and only after all of
\* them writes the PID file, so the PID written is the second child's.
C26_DaemonizeOrder ==
    \A i \in Inst :
        cmd[i] = "daemon" =>
            /\ InDaemonizeOrder(dlog[i])
            /\ ipc[i] \in {"wp_mkstemp", "wp_write", "wp_close", "wp_rename"}
                  => Len(dlog[i]) = 6
            /\ tmp[i].text # <<>> => tmp[i].text = Format(Pid(i, 2))

\* A daemon took every step, wrote the PID file and is in its run loop.
C26_Witness ==
    \E i \in Inst :
        /\ cmd[i] = "daemon"
        /\ ipc[i] = "running"
        /\ Len(dlog[i]) = 6
        /\ pidFile = File(Format(Pid(i, 2)))

\* C29: get_pid() does not raise when the PID file is removed between its
\* exists() test and its read: an invocation that is about to read the file
\* goes on or returns, it does not end with an exception.
C29_GetPidNeverRaises ==
    [][\A i \in Inst : ipc[i] = "gp_read" => ipc'[i] # "crashed"]_vars

\* C30: a foreground instance leaving its run loop removes the PID file only
\* if the file records that instance.
C30_RemovesOnlyItsOwn ==
    [][\A i \in Inst :
          (ipc[i] = "fg_cleanup" /\ ipc'[i] = "done" /\ pidFile.exists
                /\ ~pidFile'.exists)
              => pidFile.text = Format(CurPid(i))]_vars

\* C27: after the manager's get_pid() has found a process missing and removed
\* its stale PID file, get_uptime() is never computed from the start time
\* cached for that process.
C27_UptimeNotOfMissing ==
    [][(up_pc = "is_running" /\ up_pc' = "idle" /\ up_result'.ret = "seconds")
          => up_result'.of \notin missing']_vars

\* C28: when write_pid() has failed at the write, the close or the rename, the
\* temporary file is removed, the error raised is the one that occurred, and
\* the failing step and the except clause leave the PID file as it was.
C28_FailedWriteCleansUp ==
    /\ [](\A i \in Inst :
            raised[i] # NoError => tmp[i] = NoFile /\ raised[i] = wperr[i])
    /\ [][\A i \in Inst :
              (ipc[i] \in {"wp_write", "wp_close", "wp_rename", "wp_except"}
                    /\ wperr'[i] # NoError)
                  => pidFile' = pidFile]_vars

====
